---------------------------- MODULE Spec2Model ----------------------------
(***************************************************************************)
(* A model of the gc_nes_core emulator: the PPU register file and its      *)
(* (scanline, cycle) state machine, the MMC3 scanline counter, the bus     *)
(* cycle with its OAM-DMA state machine, and the controller shift          *)
(* register.  Every operator is a translation of the Rust method of the    *)
(* same name.  Arrays are kept sparse: a memory is a function defined only *)
(* on the cells that differ from the value the constructor fills it with.  *)
(***************************************************************************)
EXTENDS Integers, Sequences, FiniteSets, TLC

VARIABLES
    ppu,                \* NesPpu
    mapper,             \* Mapper004 (the cartridge's mapper state)
    cpu,                \* what the MOS6502 collaborator has been told
    ram,                \* Bus::ram
    dma_status,         \* Bus::dma_status
    cycle_count,        \* Nes::cycle_count
    input_device_one,   \* Bus::input_device_one
    panic,              \* a panic!/unimplemented! branch was reached
    overflow_checks,    \* the build panics on integer overflow (debug) or wraps (release)
    last,               \* what the last operation did (observation only)
    mark,               \* what the last OAM DMA request found (observation only)
    steps               \* operations performed so far (bounds the run)

vars == <<ppu, mapper, cpu, ram, dma_status, cycle_count, input_device_one,
          panic, overflow_checks, last, mark, steps>>

(***************************************************************************)
(* Program constants.                                                      *)
(***************************************************************************)
MAX_SCANLINES == 261
MAX_CYCLES == 340
MAX_CYCLES_MINUS_ONE == MAX_CYCLES - 1
COARSE_X_MASK == 31
COARSE_Y_MASK == 992
COARSE_Y_OFFSET == 5
FINE_Y_MASK == 28672
FINE_Y_OFFSET == 12

\* PpuCtrl
NMI_ENABLE == 128
SPRITE_HEIGHT == 32
BACKGROUND_SELECT == 16
SPRITE_SELECT == 8
VRAM_INCREMENT == 4
\* PpuMask
SPRITE_ENABLE == 16
BACKGROUND_ENABLE == 8
SPRITE_LEFT_ENABLE == 4
BACKGROUND_LEFT_ENABLE == 2
\* PpuStatus
VERTICAL_BLANK == 128
SPRITE_0_HIT == 64
SPRITE_OVERFLOW == 32
\* SpriteAttribute
SPRITE_ZERO == 28

(***************************************************************************)
(* Machine arithmetic.                                                     *)
(***************************************************************************)
Pow2(n) == 2 ^ n

RECURSIVE BitAnd(_, _)
BitAnd(a, b) ==
    IF a = 0 \/ b = 0 THEN 0
    ELSE (a % 2) * (b % 2) + 2 * BitAnd(a \div 2, b \div 2)

RECURSIVE BitOr(_, _)
BitOr(a, b) ==
    IF a = 0 THEN b
    ELSE IF b = 0 THEN a
    ELSE (IF a % 2 = 1 \/ b % 2 = 1 THEN 1 ELSE 0) + 2 * BitOr(a \div 2, b \div 2)

RECURSIVE BitXor(_, _)
BitXor(a, b) ==
    IF a = 0 THEN b
    ELSE IF b = 0 THEN a
    ELSE ((a + b) % 2) + 2 * BitXor(a \div 2, b \div 2)

\* !x on a u16
Not16(x) == 65535 - x
\* x << n on a u16 and on a u8 (bits shifted out are lost)
Shl16(x, n) == (x * Pow2(n)) % 65536
Shl8(x, n) == (x * Pow2(n)) % 256
Shr(x, n) == x \div Pow2(n)
\* bitflags' intersects
intersects(flags, mask) == BitAnd(flags, mask) # 0

(***************************************************************************)
(* Sparse arrays: Load reads a cell, Store writes one and keeps the        *)
(* representation canonical (no cell holds the fill value explicitly).     *)
(***************************************************************************)
Load(mem, i, fill) == IF i \in DOMAIN mem THEN mem[i] ELSE fill

Store(mem, i, d, fill) ==
    IF d = fill
    THEN [x \in (DOMAIN mem) \ {i} |-> mem[x]]
    ELSE [x \in (DOMAIN mem) \cup {i} |-> IF x = i THEN d ELSE mem[x]]

Empty == [x \in {} |-> 0]

\* The constructor's fill of each array
PALETTE_FILL == 0
NAME_TABLE_FILL == 0
OAM_FILL == 255
RAM_FILL == 0

(***************************************************************************)
(* NesPpu                                                                  *)
(***************************************************************************)
\* NesPpu::new with the PPU placed on the first visible scanline
NesPpu_new_at_zero ==
    [ ctrl_flags |-> 0,
      mask_flags |-> 0,
      status_flags |-> VERTICAL_BLANK + SPRITE_OVERFLOW,
      oam_address |-> 0,
      temporary_vram_address |-> 0,
      current_vram_address |-> 0,
      fine_x_scroll |-> 0,
      write_latch |-> FALSE,
      read_buffer |-> 0,
      name_table |-> Empty,
      palette_ram |-> Empty,
      object_attribute_memory |-> Empty,
      scanline |-> 0,
      cycle |-> 0,
      frame_count |-> 0 ]

\* NesPpu::new
NesPpu_new ==
    [ ctrl_flags |-> 0,
      mask_flags |-> 0,
      status_flags |-> VERTICAL_BLANK + SPRITE_OVERFLOW,
      oam_address |-> 0,
      temporary_vram_address |-> 0,
      current_vram_address |-> 0,
      fine_x_scroll |-> 0,
      write_latch |-> FALSE,
      read_buffer |-> 0,
      name_table |-> Empty,
      palette_ram |-> Empty,
      object_attribute_memory |-> Empty,
      scanline |-> 261,
      cycle |-> 0,
      frame_count |-> 0 ]

\* PpuMask::BACKGROUND_ENABLE | PpuMask::SPRITE_ENABLE intersects the mask
rendering_enabled(p) == intersects(p.mask_flags, BACKGROUND_ENABLE + SPRITE_ENABLE)

\* apply_palette_mirroring without the sprite palette alias
apply_palette_mirroring_plain(address) == address % 32

\* NesPpu::apply_palette_mirroring
apply_palette_mirroring(address) ==
    (IF address >= 16144 /\ BitAnd(address, 3) = 0
     THEN BitAnd(address, Not16(16))
     ELSE address) % 32

\* Mapper::get_mirroring as each mapper implements it.  A cartridge is
\* the record of its mapper's registers with the mapper's iNES id and, for
\* the mappers that pass it through, the mirroring of the file header.
get_mirroring(c) ==
    IF c.id = 1
    THEN CASE BitAnd(c.control_register, 3) = 0 -> "OneScreenLower"
           [] BitAnd(c.control_register, 3) = 1 -> "OneScreenUpper"
           [] BitAnd(c.control_register, 3) = 2 -> "Vertical"
           [] OTHER -> "Horizontal"
    ELSE c.mirroring

\* apply_name_table_mirroring with bit 12 of the address choosing the table
apply_name_table_mirroring_bit_12(c, address) ==
    IF get_mirroring(c) \in {"OneScreenLower", "OneScreenUpper"}
    THEN BitAnd(address, 1023)
    ELSE BitOr(BitAnd(address, 1023), Shl16(BitAnd(Shr(address, 12), 1), 10))

\* NesPpu::apply_name_table_mirroring
apply_name_table_mirroring(c, address) ==
    IF get_mirroring(c) \in {"OneScreenLower", "OneScreenUpper"}
    THEN BitAnd(address, 1023)
    ELSE BitOr(BitAnd(address, 1023),
               Shl16(BitAnd(Shr(address,
                                BitOr(10, IF get_mirroring(c) = "Horizontal" THEN 1 ELSE 0)),
                            1),
                     10))

\* NesPpu::vram_read.  The pattern tables are the cartridge's: a read of
\* them returns the byte of a blank character memory.
vram_read(p, c, address) ==
    IF address <= 8191 THEN [value |-> 0, panic |-> FALSE]
    ELSE IF address <= 16127
    THEN [value |-> Load(p.name_table, apply_name_table_mirroring(c, address),
                         NAME_TABLE_FILL),
          panic |-> FALSE]
    ELSE IF address <= 16383
    THEN [value |-> Load(p.palette_ram, apply_palette_mirroring(address), PALETTE_FILL),
          panic |-> FALSE]
    ELSE [value |-> 0, panic |-> TRUE]

\* NesPpu::vram_write.  A write to the pattern tables changes the
\* cartridge's character memory and nothing of the PPU.
vram_write(p, c, address, data) ==
    IF address <= 8191 THEN [ppu |-> p, panic |-> FALSE]
    ELSE IF address <= 16127
    THEN [ppu |-> [p EXCEPT !.name_table =
                     Store(@, apply_name_table_mirroring(c, address), data,
                           NAME_TABLE_FILL)],
          panic |-> FALSE]
    ELSE IF address <= 16383
    THEN [ppu |-> [p EXCEPT !.palette_ram =
                     Store(@, apply_palette_mirroring(address), data, PALETTE_FILL)],
          panic |-> FALSE]
    ELSE [ppu |-> p, panic |-> TRUE]

\* NesPpu::oam_read
oam_read(p) ==
    IF ~intersects(p.status_flags, VERTICAL_BLANK) /\ p.cycle > 0 /\ p.cycle <= 64
    THEN 255
    ELSE Load(p.object_attribute_memory, p.oam_address, OAM_FILL)

\* NesPpu::oam_write; `self.oam_address += 1` overflows the u8 at 0xff, which
\* panics in a build with overflow checks and wraps in one without
oam_write(p, data) ==
    [ppu |-> [p EXCEPT !.object_attribute_memory = Store(@, p.oam_address, data, OAM_FILL),
                       !.oam_address = (p.oam_address + 1) % 256],
     panic |-> overflow_checks /\ p.oam_address = 255]

\* oam_dma_write with the OAM address left out of the index
oam_dma_write_from_zero(p, address, data) ==
    [p EXCEPT !.object_attribute_memory = Store(@, address, data, OAM_FILL)]

\* NesPpu::oam_dma_write
oam_dma_write(p, address, data) ==
    [p EXCEPT !.object_attribute_memory =
        Store(@, (p.oam_address + address) % 256, data, OAM_FILL)]

\* scroll_write with the second write leaving the write toggle set
scroll_write_latch_stuck(p, data) ==
    IF p.write_latch
    THEN [p EXCEPT !.temporary_vram_address =
                      BitOr(BitAnd(@, 3103),
                            BitOr(Shl16(BitAnd(data, 7), FINE_Y_OFFSET),
                                  Shl16(BitAnd(data, 248), 2))),
                   !.write_latch = TRUE]
    ELSE [p EXCEPT !.fine_x_scroll = BitAnd(data, 7),
                   !.temporary_vram_address = BitOr(BitAnd(@, 65504), Shr(data, 3)),
                   !.write_latch = TRUE]

\* NesPpu::scroll_write
scroll_write(p, data) ==
    IF p.write_latch
    THEN [p EXCEPT !.temporary_vram_address =
                      BitOr(BitAnd(@, 3103),
                            BitOr(Shl16(BitAnd(data, 7), FINE_Y_OFFSET),
                                  Shl16(BitAnd(data, 248), 2))),
                   !.write_latch = FALSE]
    ELSE [p EXCEPT !.fine_x_scroll = BitAnd(data, 7),
                   !.temporary_vram_address = BitOr(BitAnd(@, 65504), Shr(data, 3)),
                   !.write_latch = TRUE]

\* vram_address_write with the first write's `& 0x3f` left out
vram_address_write_unmasked(p, data) ==
    IF p.write_latch
    THEN LET t == BitOr(BitAnd(65280, p.temporary_vram_address), data)
         IN  [p EXCEPT !.temporary_vram_address = t,
                       !.current_vram_address = t,
                       !.write_latch = FALSE]
    ELSE [p EXCEPT !.temporary_vram_address = BitOr(BitAnd(255, @), Shl16(data, 8)),
                   !.write_latch = TRUE]

\* NesPpu::vram_address_write
vram_address_write(p, data) ==
    IF p.write_latch
    THEN LET t == BitOr(BitAnd(65280, p.temporary_vram_address), data)
         IN  [p EXCEPT !.temporary_vram_address = t,
                       !.current_vram_address = t,
                       !.write_latch = FALSE]
    ELSE [p EXCEPT !.temporary_vram_address =
                      BitOr(BitAnd(255, @), Shl16(BitAnd(data, 63), 8)),
                   !.write_latch = TRUE]

\* coarse_x_increment with the wrap leaving bit 10 alone
coarse_x_increment_same_table(p) ==
    IF rendering_enabled(p)
    THEN IF BitAnd(p.current_vram_address, COARSE_X_MASK) = COARSE_X_MASK
         THEN [p EXCEPT !.current_vram_address = BitXor(@, COARSE_X_MASK)]
         ELSE [p EXCEPT !.current_vram_address = @ + 1]
    ELSE p

\* NesPpu::coarse_x_increment
coarse_x_increment(p) ==
    IF rendering_enabled(p)
    THEN IF BitAnd(p.current_vram_address, COARSE_X_MASK) = COARSE_X_MASK
         THEN [p EXCEPT !.current_vram_address = BitXor(@, 1024 + COARSE_X_MASK)]
         ELSE [p EXCEPT !.current_vram_address = @ + 1]
    ELSE p

\* y_increment with the wrap at coarse y 31 flipping bit 11 as the one at 29
y_increment_flip_at_31(p) ==
    IF rendering_enabled(p)
    THEN IF BitAnd(p.current_vram_address, FINE_Y_MASK) # FINE_Y_MASK
         THEN [p EXCEPT !.current_vram_address = @ + Pow2(FINE_Y_OFFSET)]
         ELSE LET v0 == BitAnd(p.current_vram_address, Not16(FINE_Y_MASK))
                  coarse_y == Shr(BitAnd(v0, COARSE_Y_MASK), COARSE_Y_OFFSET)
              IN  IF coarse_y = 29 \/ coarse_y = 31
                  THEN [p EXCEPT !.current_vram_address =
                                    BitAnd(BitXor(v0, 2048), Not16(COARSE_Y_MASK))]
                  ELSE [p EXCEPT !.current_vram_address = v0 + Pow2(COARSE_Y_OFFSET)]
    ELSE p

\* y_increment with the wrap at coarse y 29 leaving bit 11 alone
y_increment_same_table(p) ==
    IF rendering_enabled(p)
    THEN IF BitAnd(p.current_vram_address, FINE_Y_MASK) # FINE_Y_MASK
         THEN [p EXCEPT !.current_vram_address = @ + Pow2(FINE_Y_OFFSET)]
         ELSE LET v0 == BitAnd(p.current_vram_address, Not16(FINE_Y_MASK))
                  coarse_y == Shr(BitAnd(v0, COARSE_Y_MASK), COARSE_Y_OFFSET)
              IN  IF coarse_y = 29 \/ coarse_y = 31
                  THEN [p EXCEPT !.current_vram_address = BitAnd(v0, Not16(COARSE_Y_MASK))]
                  ELSE [p EXCEPT !.current_vram_address = v0 + Pow2(COARSE_Y_OFFSET)]
    ELSE p

\* NesPpu::y_increment
y_increment(p) ==
    IF rendering_enabled(p)
    THEN IF BitAnd(p.current_vram_address, FINE_Y_MASK) # FINE_Y_MASK
         THEN [p EXCEPT !.current_vram_address = @ + Pow2(FINE_Y_OFFSET)]
         ELSE LET v0 == BitAnd(p.current_vram_address, Not16(FINE_Y_MASK))
                  coarse_y == Shr(BitAnd(v0, COARSE_Y_MASK), COARSE_Y_OFFSET)
              IN  IF coarse_y = 29
                  THEN [p EXCEPT !.current_vram_address =
                                    BitAnd(BitXor(v0, 2048), Not16(COARSE_Y_MASK))]
                  ELSE IF coarse_y = 31
                  THEN [p EXCEPT !.current_vram_address = BitAnd(v0, Not16(COARSE_Y_MASK))]
                  ELSE [p EXCEPT !.current_vram_address = v0 + Pow2(COARSE_Y_OFFSET)]
    ELSE p

\* The data port's step: 0x20 or 0x01 per PpuCtrl::VRAM_INCREMENT, added on a u16
vram_increment(p) ==
    [p EXCEPT !.current_vram_address =
        (@ + (IF intersects(p.ctrl_flags, VRAM_INCREMENT) THEN 32 ELSE 1)) % 65536]

\* NesPpu::read with the status read clearing all three flags
NesPpu_read_clear_flags(p, c, address) ==
    LET offset == BitAnd(address, 7) IN
    CASE offset = 0 -> [ppu |-> p, value |-> 0, panic |-> FALSE]
      [] offset = 1 -> [ppu |-> p, value |-> 0, panic |-> FALSE]
      [] offset = 2 ->
            [ppu |-> [p EXCEPT !.status_flags = 0,
                               !.write_latch = FALSE],
             value |-> BitOr(p.status_flags, BitAnd(p.read_buffer, 31)),
             panic |-> FALSE]
      [] offset = 3 -> [ppu |-> p, value |-> 0, panic |-> TRUE]
      [] offset = 4 -> [ppu |-> p, value |-> oam_read(p), panic |-> FALSE]
      [] offset = 5 -> [ppu |-> p, value |-> 0, panic |-> TRUE]
      [] offset = 6 -> [ppu |-> p, value |-> 0, panic |-> TRUE]
      [] OTHER ->
            LET r == vram_read(p, c, p.current_vram_address) IN
            IF r.panic THEN [ppu |-> p, value |-> 0, panic |-> TRUE]
            ELSE [ppu |-> vram_increment([p EXCEPT !.read_buffer = r.value]),
                  value |-> IF p.current_vram_address >= 16128 THEN r.value
                            ELSE p.read_buffer,
                  panic |-> FALSE]

\* NesPpu::read
NesPpu_read(p, c, address) ==
    LET offset == BitAnd(address, 7) IN
    CASE offset = 0 -> [ppu |-> p, value |-> 0, panic |-> FALSE]
      [] offset = 1 -> [ppu |-> p, value |-> 0, panic |-> FALSE]
      [] offset = 2 ->
            [ppu |-> [p EXCEPT !.status_flags = BitAnd(@, 255 - VERTICAL_BLANK),
                               !.write_latch = FALSE],
             value |-> BitOr(p.status_flags, BitAnd(p.read_buffer, 31)),
             panic |-> FALSE]
      [] offset = 3 -> [ppu |-> p, value |-> 0, panic |-> TRUE]
      [] offset = 4 -> [ppu |-> p, value |-> oam_read(p), panic |-> FALSE]
      [] offset = 5 -> [ppu |-> p, value |-> 0, panic |-> TRUE]
      [] offset = 6 -> [ppu |-> p, value |-> 0, panic |-> TRUE]
      [] OTHER ->
            LET r == vram_read(p, c, p.current_vram_address) IN
            IF r.panic THEN [ppu |-> p, value |-> 0, panic |-> TRUE]
            ELSE [ppu |-> vram_increment([p EXCEPT !.read_buffer = r.value]),
                  value |-> IF p.current_vram_address >= 16128 THEN r.value
                            ELSE p.read_buffer,
                  panic |-> FALSE]

\* NesPpu::write
NesPpu_write(p, c, address, data) ==
    LET offset == BitAnd(address, 7) IN
    CASE offset = 0 ->
            [ppu |-> [p EXCEPT !.ctrl_flags = data,
                               !.temporary_vram_address =
                                   BitOr(BitAnd(@, 29695), Shl16(BitAnd(data, 3), 10))],
             panic |-> FALSE]
      [] offset = 1 -> [ppu |-> [p EXCEPT !.mask_flags = data], panic |-> FALSE]
      [] offset = 2 -> [ppu |-> p, panic |-> FALSE]
      [] offset = 3 -> [ppu |-> [p EXCEPT !.oam_address = data], panic |-> FALSE]
      [] offset = 4 -> oam_write(p, data)
      [] offset = 5 -> [ppu |-> scroll_write(p, data), panic |-> FALSE]
      [] offset = 6 -> [ppu |-> vram_address_write(p, data), panic |-> FALSE]
      [] OTHER ->
            LET w == vram_write(p, c, p.current_vram_address, data) IN
            IF w.panic THEN [ppu |-> p, panic |-> TRUE]
            ELSE [ppu |-> vram_increment(w.ppu), panic |-> FALSE]

\* NesPpu::reset with the whole status register cleared
NesPpu_reset_clear_status(p) ==
    [p EXCEPT !.ctrl_flags = 0,
              !.mask_flags = 0,
              !.status_flags = 0,
              !.write_latch = FALSE,
              !.read_buffer = 0,
              !.cycle = 0,
              !.scanline = 0,
              !.fine_x_scroll = 0,
              !.temporary_vram_address = 0]

\* NesPpu::reset
NesPpu_reset(p) ==
    [p EXCEPT !.ctrl_flags = 0,
              !.mask_flags = 0,
              !.status_flags = BitAnd(@, VERTICAL_BLANK),
              !.write_latch = FALSE,
              !.read_buffer = 0,
              !.cycle = 0,
              !.scanline = 0,
              !.fine_x_scroll = 0,
              !.temporary_vram_address = 0]

(***************************************************************************)
(* The pixel of a dot.  The background shifters and the sprites loaded for *)
(* the scanline are not part of the PPU record: draw_pixel takes them as   *)
(* it finds them, the two background pattern shifters and the sprites in   *)
(* slot order, each [x_offset, shifter_hi, shifter_lo, attributes].        *)
(***************************************************************************)
\* the condition `!(self.cycle > 0 && self.cycle <= 8)`
past_left_edge(p) == ~(p.cycle > 0 /\ p.cycle <= 8)

\* NesPpu::calculate_background_pixel, the pixel of the pair it returns
calculate_background_pixel(p, pattern_shifter_hi, pattern_shifter_lo) ==
    IF intersects(p.mask_flags, BACKGROUND_ENABLE)
       /\ (past_left_edge(p) \/ intersects(p.mask_flags, BACKGROUND_LEFT_ENABLE))
    THEN BitOr(Shr(BitAnd(Shl16(pattern_shifter_hi, p.fine_x_scroll), 32768), 14),
               Shr(BitAnd(Shl16(pattern_shifter_lo, p.fine_x_scroll), 32768), 15))
    ELSE 0

\* the sprite-zero test of calculate_foreground_pixel without `cycle != 256`
sprite_zero_hit_any_dot(p, attributes, foreground_pixel, background_pixel) ==
    /\ intersects(p.mask_flags, BACKGROUND_ENABLE + SPRITE_ENABLE)
    /\ intersects(attributes, SPRITE_ZERO)
    /\ foreground_pixel > 0
    /\ background_pixel > 0
    /\ (past_left_edge(p)
        \/ intersects(p.mask_flags, SPRITE_LEFT_ENABLE + BACKGROUND_LEFT_ENABLE))

\* NesPpu::calculate_foreground_pixel, the test under `Check for Sprite Zero hit`
sprite_zero_hit(p, attributes, foreground_pixel, background_pixel) ==
    /\ intersects(p.mask_flags, BACKGROUND_ENABLE + SPRITE_ENABLE)
    /\ intersects(attributes, SPRITE_ZERO)
    /\ foreground_pixel > 0
    /\ background_pixel > 0
    /\ (past_left_edge(p)
        \/ intersects(p.mask_flags, SPRITE_LEFT_ENABLE + BACKGROUND_LEFT_ENABLE))
    /\ p.cycle # 256

\* NesPpu::calculate_foreground_pixel, its loop from slot i on: the PPU it
\* leaves and the pixel of the triple it returns
RECURSIVE calculate_foreground_pixel(_, _, _, _, _)
calculate_foreground_pixel(p, sprites, i, foreground_pixel, background_pixel) ==
    IF i > Len(sprites) THEN [ppu |-> p, foreground_pixel |-> foreground_pixel]
    ELSE LET x_offset == IF sprites[i].x_offset > -8 THEN sprites[i].x_offset - 1
                         ELSE sprites[i].x_offset
             pixel ==
                 IF intersects(p.mask_flags, SPRITE_ENABLE)
                    /\ (past_left_edge(p) \/ intersects(p.mask_flags, SPRITE_LEFT_ENABLE))
                 THEN BitOr(Shr(BitAnd(Shl8(sprites[i].shifter_hi, -x_offset), 128), 6),
                            Shr(BitAnd(Shl8(sprites[i].shifter_lo, -x_offset), 128), 7))
                 ELSE foreground_pixel
         IN  IF x_offset <= 0 /\ x_offset > -8 /\ foreground_pixel = 0
             THEN calculate_foreground_pixel(
                      IF sprite_zero_hit(p, sprites[i].attributes, pixel, background_pixel)
                      THEN [p EXCEPT !.status_flags = BitOr(@, SPRITE_0_HIT)]
                      ELSE p,
                      sprites, i + 1, pixel, background_pixel)
             ELSE calculate_foreground_pixel(p, sprites, i + 1, foreground_pixel,
                                             background_pixel)

\* NesPpu::draw_pixel as far as the PPU record goes: the screen buffer is
\* not part of it
draw_pixel(p, pattern_shifter_hi, pattern_shifter_lo, sprites) ==
    calculate_foreground_pixel(
        p, sprites, 1, 0,
        calculate_background_pixel(p, pattern_shifter_hi, pattern_shifter_lo)).ppu

(***************************************************************************)
(* The mappers get_mapper builds for ids 0 to 3, each with the mirroring   *)
(* the cartridge took from the file header.                                *)
(***************************************************************************)
\* get_mapper, id 0
Mapper000_new(mirroring) == [id |-> 0, mirroring |-> mirroring]

\* get_mapper, id 1
Mapper001_new(mirroring) ==
    [ id |-> 1,
      mirroring |-> mirroring,
      load_register |-> 16,
      control_register |-> 28,
      character_bank_0_register |-> 0,
      character_bank_1_register |-> 0,
      program_bank_register |-> 0 ]

\* get_mapper, id 2
Mapper002_new(mirroring) == [id |-> 2, mirroring |-> mirroring, bank_select |-> 0]

\* get_mapper, id 3
Mapper003_new(mirroring) == [id |-> 3, mirroring |-> mirroring, bank_select |-> 0]

(***************************************************************************)
(* Mapper004 (MMC3): the scanline counter and its interrupt request.       *)
(***************************************************************************)
\* get_mapper, id 4
Mapper004_new ==
    [ id |-> 4,
      bank_control |-> 0,
      bank_select |-> [i \in 0 .. 7 |-> 0],
      mirroring |-> "Horizontal",
      program_ram_write_protect |-> FALSE,
      program_ram_enabled |-> FALSE,
      scanline_counter |-> 0,
      scanline_counter_reload |-> 0,
      scanline_counter_reload_flag |-> FALSE,
      interrupt_request_enabled |-> FALSE,
      pending_interrupt_request |-> FALSE ]

\* Mapper004::end_of_scanline
end_of_scanline(m) ==
    LET raised == [m EXCEPT !.pending_interrupt_request =
                                IF m.scanline_counter = 0 /\ m.interrupt_request_enabled
                                THEN TRUE ELSE @]
    IN  IF m.scanline_counter = 0 \/ m.scanline_counter_reload_flag
        THEN [raised EXCEPT !.scanline_counter = m.scanline_counter_reload,
                            !.scanline_counter_reload_flag = FALSE]
        ELSE [raised EXCEPT !.scanline_counter = @ - 1]

\* Mapper004::get_pending_interrupt_request
get_pending_interrupt_request(m) ==
    [mapper |-> [m EXCEPT !.pending_interrupt_request = FALSE],
     value |-> m.pending_interrupt_request]

\* Mapper004::program_write, the registers of 0x8000..=0xffff; the arm
\* for 0x6000..=0x7fff is program_ram_write.
Mapper004_program_write(m, address, data) ==
    IF address < 32768 THEN m
    ELSE IF address <= 40959
    THEN IF address % 2 = 0
         THEN [m EXCEPT !.bank_control = data]
         ELSE [m EXCEPT !.bank_select[BitAnd(m.bank_control, 7)] = data]
    ELSE IF address <= 49151
    THEN IF address % 2 = 0
         THEN [m EXCEPT !.mirroring = IF BitAnd(data, 1) > 0 THEN "Horizontal"
                                      ELSE "Vertical"]
         ELSE [m EXCEPT !.program_ram_write_protect = BitAnd(data, 64) > 0,
                        !.program_ram_enabled = BitAnd(data, 128) > 0]
    ELSE IF address <= 57343
    THEN IF address % 2 = 0
         THEN [m EXCEPT !.scanline_counter_reload = data]
         ELSE [m EXCEPT !.scanline_counter = m.scanline_counter_reload,
                        !.scanline_counter_reload_flag = TRUE]
    ELSE IF address % 2 = 0
         THEN [m EXCEPT !.interrupt_request_enabled = FALSE,
                        !.pending_interrupt_request = FALSE]
         ELSE [m EXCEPT !.interrupt_request_enabled = TRUE]

(***************************************************************************)
(* The cartridge's memories and the mappers' view of them.  A memory is    *)
(* its length and the cells written since it was loaded; a cell never      *)
(* written holds the byte of the image, which here names the 8 KiB bank    *)
(* and the low bits of the offset it sits at.  An index at or past the     *)
(* length fails, as does a remainder by a length of zero.  program_rom is  *)
(* a whole number of 16 KiB banks, so `len / 0x4000 - 1` underflows only   *)
(* for an empty ROM, where the access fails in either build.               *)
(***************************************************************************)
ImageByte(i) == ((i \div 8192) % 32) * 8 + (i % 8)

Memory(len) == [len |-> len, cells |-> Empty]

\* memory[i]
Index(memory, i) ==
    IF i < memory.len
    THEN [value |-> IF i \in DOMAIN memory.cells THEN memory.cells[i] ELSE ImageByte(i),
          panic |-> FALSE]
    ELSE [value |-> 0, panic |-> TRUE]

\* memory[i % memory.len()]
IndexMod(memory, i) ==
    IF memory.len = 0 THEN [value |-> 0, panic |-> TRUE]
    ELSE Index(memory, i % memory.len)

\* Mapper::program_read, the default Mapper000 and Mapper003 use
Mapper_program_read(program_rom, program_ram, address) ==
    IF address <= 24575 THEN [value |-> 0, panic |-> FALSE]
    ELSE IF address <= 32767
    THEN IF program_ram.len = 0 THEN [value |-> 0, panic |-> FALSE]
         ELSE IndexMod(program_ram, address - 24576)
    ELSE IF program_rom.len = 0 THEN [value |-> 0, panic |-> FALSE]
         ELSE IndexMod(program_rom, address - 32768)

\* Mapper001::program_read
Mapper001_program_read(m, program_rom, program_ram, address) ==
    IF address <= 24575 THEN [value |-> 0, panic |-> FALSE]
    ELSE IF address <= 32767
    THEN IF BitAnd(m.program_bank_register, 16) > 0 /\ program_ram.len = 0
         THEN [value |-> 0, panic |-> FALSE]
         ELSE IndexMod(program_ram, address - 24576)
    ELSE IF Shr(BitAnd(m.control_register, 12), 2) = 0
    THEN Index(program_rom, BitAnd(address, 32767))
    ELSE IF Shr(BitAnd(m.control_register, 12), 2) = 1
    THEN Index(program_rom,
               BitAnd(address, 32767) + BitAnd(m.program_bank_register, 14) * 16384)
    ELSE IF Shr(BitAnd(m.control_register, 12), 2) = 2
    THEN IF address <= 49151
         THEN Index(program_rom, BitAnd(address, 16383))
         ELSE Index(program_rom,
                    BitAnd(address, 16383) + BitAnd(m.program_bank_register, 15) * 16384)
    ELSE IF address <= 49151
         THEN Index(program_rom,
                    BitAnd(address, 16383) + BitAnd(m.program_bank_register, 15) * 16384)
         ELSE IndexMod(program_rom,
                       BitAnd(address, 16383)
                       + (program_rom.len \div 16384 - 1) * 16384)

\* Mapper002::program_read
Mapper002_program_read(m, program_rom, program_ram, address) ==
    IF address <= 24575 THEN [value |-> 0, panic |-> FALSE]
    ELSE IF address <= 32767
    THEN IF program_ram.len = 0 THEN [value |-> 0, panic |-> FALSE]
         ELSE IndexMod(program_ram, address - 24576)
    ELSE IF address <= 49151
    THEN Index(program_rom, BitAnd(address, 16383) + m.bank_select * 16384)
    ELSE IF program_rom.len = 0 THEN [value |-> 0, panic |-> TRUE]
         ELSE Index(program_rom,
                    BitAnd(address, 16383) + (program_rom.len \div 16384 - 1) * 16384)

\* Mapper004::program_read
Mapper004_program_read(m, program_rom, program_ram, address) ==
    IF address <= 24575 THEN [value |-> 0, panic |-> FALSE]
    ELSE IF address <= 32767
    THEN IF program_ram.len = 0 THEN [value |-> 0, panic |-> FALSE]
         ELSE IndexMod(program_ram, address - 24576)
    ELSE IF program_rom.len = 0 THEN [value |-> 0, panic |-> TRUE]
    ELSE IF (address <= 40959 /\ BitAnd(m.bank_control, 64) = 0)
            \/ (address >= 49152 /\ address <= 57343 /\ BitAnd(m.bank_control, 64) = 64)
    THEN Index(program_rom, BitAnd(address, 8191) + m.bank_select[6] * 8192)
    ELSE IF address <= 40959 \/ (address >= 49152 /\ address <= 57343)
    THEN Index(program_rom,
               BitAnd(address, 8191) + (program_rom.len \div 8192 - 2) * 8192)
    ELSE IF address <= 49151
    THEN Index(program_rom, BitAnd(address, 8191) + m.bank_select[7] * 8192)
    ELSE Index(program_rom,
               BitAnd(address, 8191) + (program_rom.len \div 8192 - 1) * 8192)

\* Cartridge::program_read: the call through Box<dyn Mapper>
program_read(m, program_rom, program_ram, address) ==
    CASE m.id = 1 -> Mapper001_program_read(m, program_rom, program_ram, address)
      [] m.id = 2 -> Mapper002_program_read(m, program_rom, program_ram, address)
      [] m.id = 4 -> Mapper004_program_read(m, program_rom, program_ram, address)
      [] OTHER -> Mapper_program_read(program_rom, program_ram, address)

\* program_write's arm `0x6000..=0x7fff => program_ram[address - 0x6000] = data`,
\* the same in every mapper
program_ram_write(program_ram, address, data) ==
    IF address - 24576 < program_ram.len
    THEN [program_ram |-> [program_ram EXCEPT !.cells =
                              [x \in (DOMAIN @) \cup {address - 24576} |->
                                  IF x = address - 24576 THEN data ELSE @[x]]],
          panic |-> FALSE]
    ELSE [program_ram |-> program_ram, panic |-> TRUE]

\* Mapper001::program_write with the collected bits copied on the fourth write
Mapper001_program_write_early(m, address, data) ==
    IF address < 32768 THEN m
    ELSE IF BitAnd(data, 128) = 0
    THEN LET shifted == BitOr(Shr(m.load_register, 1), Shl8(BitAnd(data, 1), 4))
         IN  IF BitAnd(m.load_register, 2) > 0
             THEN IF BitAnd(address, 24576) = 0
                  THEN [m EXCEPT !.control_register = shifted, !.load_register = 16]
                  ELSE IF BitAnd(address, 24576) = 8192
                  THEN [m EXCEPT !.character_bank_0_register = shifted,
                                 !.load_register = 16]
                  ELSE IF BitAnd(address, 24576) = 16384
                  THEN [m EXCEPT !.character_bank_1_register = shifted,
                                 !.load_register = 16]
                  ELSE [m EXCEPT !.program_bank_register = shifted,
                                 !.load_register = 16]
             ELSE [m EXCEPT !.load_register = shifted]
    ELSE [m EXCEPT !.load_register = 16]

\* Mapper001::program_write, the registers of 0x8000..=0xffff
Mapper001_program_write(m, address, data) ==
    IF address < 32768 THEN m
    ELSE IF BitAnd(data, 128) = 0
    THEN LET shifted == BitOr(Shr(m.load_register, 1), Shl8(BitAnd(data, 1), 4))
         IN  IF BitAnd(m.load_register, 1) > 0
             THEN IF BitAnd(address, 24576) = 0
                  THEN [m EXCEPT !.control_register = shifted, !.load_register = 16]
                  ELSE IF BitAnd(address, 24576) = 8192
                  THEN [m EXCEPT !.character_bank_0_register = shifted,
                                 !.load_register = 16]
                  ELSE IF BitAnd(address, 24576) = 16384
                  THEN [m EXCEPT !.character_bank_1_register = shifted,
                                 !.load_register = 16]
                  ELSE [m EXCEPT !.program_bank_register = shifted,
                                 !.load_register = 16]
             ELSE [m EXCEPT !.load_register = shifted]
    ELSE [m EXCEPT !.load_register = 16]

\* Mapper002::program_write, the register of 0x8000..=0xffff
Mapper002_program_write(m, address, data) ==
    IF address < 32768 THEN m ELSE [m EXCEPT !.bank_select = BitAnd(data, 15)]

\* Mapper003::program_write, the register of 0x8000..=0xffff
Mapper003_program_write(m, address, data) ==
    IF address < 32768 THEN m ELSE [m EXCEPT !.bank_select = BitAnd(data, 3)]

\* Cartridge::program_write: the call through Box<dyn Mapper>
program_write(m, program_ram, address, data) ==
    IF address >= 24576 /\ address <= 32767
    THEN LET stored(r) == [mapper |-> m, program_ram |-> r.program_ram, panic |-> r.panic]
         IN  stored(program_ram_write(program_ram, address, data))
    ELSE [mapper |-> CASE m.id = 1 -> Mapper001_program_write(m, address, data)
                       [] m.id = 2 -> Mapper002_program_write(m, address, data)
                       [] m.id = 3 -> Mapper003_program_write(m, address, data)
                       [] m.id = 4 -> Mapper004_program_write(m, address, data)
                       [] OTHER -> m,
          program_ram |-> program_ram,
          panic |-> FALSE]

(***************************************************************************)
(* The MOS6502 collaborator: the requests it has received and the cycles   *)
(* it has been given.                                                      *)
(***************************************************************************)
MOS6502_new == [nmi |-> FALSE, irq |-> FALSE, cycles |-> 0]

(***************************************************************************)
(* NesPpu::cycle.  The background and sprite pixel pipelines (shifters,    *)
(* secondary OAM, screen buffer and the two sprite status flags they       *)
(* raise) are not part of this state; everything else the step does is.    *)
(***************************************************************************)
\* ppu_cycle_special with the scanline counter clocked on dots 260 and 264
ppu_cycle_special_twice(p, m) ==
    IF p.cycle \in {260, 264} /\ p.scanline <= 240 /\ rendering_enabled(p)
       /\ intersects(p.ctrl_flags, SPRITE_SELECT)
    THEN [ppu |-> p, mapper |-> end_of_scanline(m), eos |-> TRUE]
    ELSE [ppu |-> p, mapper |-> m, eos |-> FALSE]

\* ppu_cycle_special with the whole of t copied at cycle 257
ppu_cycle_special_copy_all(p, m) ==
    LET rendering == rendering_enabled(p)
        t == p.temporary_vram_address
        v == p.current_vram_address
    IN  IF p.cycle = 257 /\ rendering
        THEN [ppu |-> [p EXCEPT !.current_vram_address = t], mapper |-> m, eos |-> FALSE]
        ELSE IF p.cycle = 260 /\ p.scanline <= 240 /\ rendering
                /\ intersects(p.ctrl_flags, SPRITE_SELECT)
        THEN [ppu |-> p, mapper |-> end_of_scanline(m), eos |-> TRUE]
        ELSE IF p.cycle = 324 /\ p.scanline <= 240 /\ rendering
                /\ intersects(p.ctrl_flags, BACKGROUND_SELECT)
        THEN [ppu |-> p, mapper |-> end_of_scanline(m), eos |-> TRUE]
        ELSE IF p.cycle >= 280 /\ p.cycle <= 304 /\ p.scanline = MAX_SCANLINES /\ rendering
        THEN [ppu |-> [p EXCEPT !.current_vram_address =
                          BitOr(BitAnd(v, Not16(FINE_Y_MASK + 2048 + COARSE_Y_MASK)),
                                BitAnd(t, FINE_Y_MASK + 2048 + COARSE_Y_MASK))],
              mapper |-> m, eos |-> FALSE]
        ELSE [ppu |-> p, mapper |-> m, eos |-> FALSE]

\* the (cycle, scanline, rendering) special cases of cycles 257..=320
ppu_cycle_special(p, m) ==
    LET rendering == rendering_enabled(p)
        t == p.temporary_vram_address
        v == p.current_vram_address
    IN  IF p.cycle = 257 /\ rendering
        THEN [ppu |-> [p EXCEPT !.current_vram_address =
                          BitOr(BitAnd(v, Not16(1024 + COARSE_X_MASK)),
                                BitAnd(t, 1024 + COARSE_X_MASK))],
              mapper |-> m, eos |-> FALSE]
        ELSE IF p.cycle = 260 /\ p.scanline <= 240 /\ rendering
                /\ intersects(p.ctrl_flags, SPRITE_SELECT)
        THEN [ppu |-> p, mapper |-> end_of_scanline(m), eos |-> TRUE]
        ELSE IF p.cycle = 324 /\ p.scanline <= 240 /\ rendering
                /\ intersects(p.ctrl_flags, BACKGROUND_SELECT)
        THEN [ppu |-> p, mapper |-> end_of_scanline(m), eos |-> TRUE]
        ELSE IF p.cycle >= 280 /\ p.cycle <= 304 /\ p.scanline = MAX_SCANLINES /\ rendering
        THEN [ppu |-> [p EXCEPT !.current_vram_address =
                          BitOr(BitAnd(v, Not16(FINE_Y_MASK + 2048 + COARSE_Y_MASK)),
                                BitAnd(t, FINE_Y_MASK + 2048 + COARSE_Y_MASK))],
              mapper |-> m, eos |-> FALSE]
        ELSE [ppu |-> p, mapper |-> m, eos |-> FALSE]

\* the match on self.scanline: what the dot does
ppu_cycle_dot(p, m, c) ==
    LET same == [ppu |-> p, mapper |-> m, cpu |-> c, eos |-> FALSE, panic |-> FALSE] IN
    IF p.scanline = MAX_SCANLINES \/ p.scanline <= 239
    THEN IF p.cycle = 0 THEN same
         ELSE IF p.cycle <= 256 \/ (p.cycle >= 321 /\ p.cycle <= 336)
         THEN LET fetched(p1) ==
                      IF p.scanline = MAX_SCANLINES /\ p.cycle = 1
                      THEN [p1 EXCEPT !.status_flags = 0]
                      ELSE IF p.cycle = 256 THEN y_increment(p1)
                      ELSE p1
              IN  [same EXCEPT
                     !.ppu = fetched(IF p.cycle % 8 = 0 THEN coarse_x_increment(p) ELSE p)]
         ELSE IF p.cycle <= 320
         THEN LET special(r) ==
                      [same EXCEPT !.ppu = r.ppu, !.mapper = r.mapper, !.eos = r.eos]
              IN  special(ppu_cycle_special(p, m))
         ELSE IF p.cycle <= 340 THEN same
         ELSE [same EXCEPT !.panic = TRUE]
    ELSE IF p.scanline = 240 THEN same
    ELSE IF p.scanline = 241
    THEN IF p.cycle = 1
         THEN [same EXCEPT !.ppu.status_flags = BitOr(@, VERTICAL_BLANK),
                           !.cpu.nmi = IF intersects(p.ctrl_flags, NMI_ENABLE)
                                       THEN TRUE ELSE @]
         ELSE same
    ELSE IF p.scanline <= 260 THEN same
    ELSE [same EXCEPT !.panic = TRUE]

\* ppu_cycle_advance with every pre-render scanline ending at dot 340
ppu_cycle_advance_no_skip(p) ==
    IF p.cycle = MAX_CYCLES /\ p.scanline = MAX_SCANLINES
    THEN [p EXCEPT !.cycle = 0, !.scanline = 0, !.frame_count = @ + 1]
    ELSE IF p.cycle = MAX_CYCLES
    THEN [p EXCEPT !.cycle = 0, !.scanline = @ + 1]
    ELSE [p EXCEPT !.cycle = @ + 1]

\* ppu_cycle_advance with the rollover of even frames only
ppu_cycle_advance_even_only(p) ==
    IF p.cycle = MAX_CYCLES /\ p.scanline = MAX_SCANLINES /\ p.frame_count % 2 = 0
    THEN [p EXCEPT !.cycle = 0, !.scanline = 0, !.frame_count = @ + 1]
    ELSE IF p.cycle = MAX_CYCLES
    THEN [p EXCEPT !.cycle = 0, !.scanline = @ + 1]
    ELSE [p EXCEPT !.cycle = @ + 1]

\* the match on (cycle, scanline, frame_count & 1): where the next dot is
ppu_cycle_advance(p) ==
    IF    (p.cycle = MAX_CYCLES /\ p.scanline = MAX_SCANLINES /\ p.frame_count % 2 = 0)
       \/ (p.cycle = MAX_CYCLES_MINUS_ONE /\ p.scanline = MAX_SCANLINES /\ p.frame_count % 2 = 1)
    THEN [p EXCEPT !.cycle = 0, !.scanline = 0, !.frame_count = @ + 1]
    ELSE IF p.cycle = MAX_CYCLES
    THEN [p EXCEPT !.cycle = 0, !.scanline = @ + 1]
    ELSE [p EXCEPT !.cycle = @ + 1]

\* NesPpu::cycle
NesPpu_cycle(p, m, c) ==
    LET advance(d) == IF d.panic THEN d
                      ELSE [d EXCEPT !.ppu = ppu_cycle_advance(d.ppu)]
    IN  advance(ppu_cycle_dot(p, m, c))

(***************************************************************************)
(* NesInput and NesInputDevice: a controller port.                         *)
(***************************************************************************)
Disconnected == [connected |-> FALSE]

\* NesInputDevice::new, wrapped in NesInput::Connected
NesInputDevice_new(input_state) ==
    [connected |-> TRUE, shift_register |-> 0, reload_latch |-> FALSE,
     input_state |-> input_state]

\* NesInputDevice::update_state
update_state(device, input_state) == [device EXCEPT !.input_state = input_state]

\* NesInputDevice::reload_shift_register
reload_shift_register(device) ==
    IF device.reload_latch
    THEN [device EXCEPT !.shift_register = device.input_state]
    ELSE device

\* NesInputDevice::latch with any bit of the data arming the reload
NesInputDevice_latch_any_bit(device, data) ==
    reload_shift_register([device EXCEPT !.reload_latch = (data # 0)])

\* NesInputDevice::latch
NesInputDevice_latch(device, data) ==
    reload_shift_register([device EXCEPT !.reload_latch = (BitAnd(data, 1) = 1)])

\* NesInputDevice::poll with zeroes shifted in
NesInputDevice_poll_zero_fill(device, bus) ==
    LET d == reload_shift_register(device) IN
    [device |-> [d EXCEPT !.shift_register = Shr(d.shift_register, 1)],
     value |-> BitOr(BitAnd(d.shift_register, 1), BitAnd(bus, 248))]

\* NesInputDevice::poll
NesInputDevice_poll(device, bus) ==
    LET d == reload_shift_register(device) IN
    [device |-> [d EXCEPT !.shift_register = BitOr(Shr(d.shift_register, 1), 128)],
     value |-> BitOr(BitAnd(d.shift_register, 1), BitAnd(bus, 248))]

\* NesInput::latch
NesInput_latch(input, data) ==
    IF input.connected THEN NesInputDevice_latch(input, data) ELSE input

\* NesInput::poll
NesInput_poll(input, bus) ==
    IF input.connected THEN NesInputDevice_poll(input, bus)
    ELSE [device |-> input, value |-> BitAnd(bus, 244)]

\* Nes::update_controller_one; an Option<u8> is <<>> for None and <<x>> for
\* Some(x)
update_controller_one(input, input_state) ==
    IF input_state = <<>> THEN Disconnected
    ELSE IF input.connected THEN update_state(input, input_state[1])
    ELSE NesInputDevice_new(input_state[1])

\* Nes::update_controller_two, on the second port
update_controller_two(input, input_state) ==
    IF input_state = <<>> THEN Disconnected
    ELSE IF input.connected THEN update_state(input, input_state[1])
    ELSE NesInputDevice_new(input_state[1])

\* WebNes::update_controller_one and WebNes::update_controller_two on the
\* pair of ports [one, two] of the console the wrapper owns
WebNes_update_controller_one(ports, controller_state) ==
    [ports EXCEPT !.one = update_controller_one(@, <<controller_state>>)]

WebNes_update_controller_two(ports, controller_state) ==
    [ports EXCEPT !.one = update_controller_one(@, <<controller_state>>)]

(***************************************************************************)
(* Nes and Bus.  A console is the record                                   *)
(*   [ppu, mapper, cpu, ram, dma_status, cycle_count, input_device_one,    *)
(*    panic].                                                              *)
(***************************************************************************)
NoDma == [active |-> FALSE]
NoOp == [op |-> "none"]

\* DmaStatus::new
DmaStatus_new(page) ==
    [active |-> TRUE, dma_wait |-> TRUE, dma_start_address |-> Shl16(page, 8),
     dma_count |-> 0, dma_buffer |-> 0]

\* Nes::new
Nes_new ==
    [ ppu |-> NesPpu_new,
      mapper |-> Mapper004_new,
      cpu |-> MOS6502_new,
      ram |-> Empty,
      dma_status |-> NoDma,
      cycle_count |-> 0,
      input_device_one |-> Disconnected,
      panic |-> FALSE ]

\* Bus::read (Interface6502).  The second controller port is never
\* connected and the cartridge's program ROM is blank.
Bus_read(n, address) ==
    IF address <= 8191
    THEN [nes |-> n, value |-> Load(n.ram, BitAnd(address, 2047), RAM_FILL)]
    ELSE IF address <= 16383
    THEN LET from_ppu(r) ==
                 [nes |-> [n EXCEPT !.ppu = r.ppu, !.panic = r.panic], value |-> r.value]
         IN  from_ppu(NesPpu_read(n.ppu, n.mapper, address))
    ELSE IF address <= 16405 THEN [nes |-> n, value |-> 0]
    ELSE IF address = 16406
    THEN LET from_port(r) ==
                 [nes |-> [n EXCEPT !.input_device_one = r.device], value |-> r.value]
         IN  from_port(NesInput_poll(n.input_device_one, 0))
    ELSE IF address = 16407
    THEN [nes |-> n, value |-> NesInput_poll(Disconnected, 0).value]
    ELSE [nes |-> n, value |-> 0]

\* Bus::write (Interface6502)
Bus_write(n, address, data) ==
    IF address <= 8191
    THEN [n EXCEPT !.ram = Store(@, BitAnd(address, 2047), data, RAM_FILL)]
    ELSE IF address <= 16383
    THEN LET to_ppu(r) == [n EXCEPT !.ppu = r.ppu, !.panic = r.panic]
         IN  to_ppu(NesPpu_write(n.ppu, n.mapper, address, data))
    ELSE IF address <= 16403 THEN n
    ELSE IF address = 16404 THEN [n EXCEPT !.dma_status = DmaStatus_new(data)]
    ELSE IF address = 16405 THEN n
    ELSE IF address = 16406
    THEN [n EXCEPT !.input_device_one = NesInput_latch(@, data)]
    ELSE IF address = 16407 THEN n
    ELSE IF address <= 16415 THEN [n EXCEPT !.panic = TRUE]
    ELSE [n EXCEPT !.mapper = Mapper004_program_write(@, address, data)]

\* MOS6502::cycle as the bus sees it: one CPU cycle makes at most one bus
\* access, which the processor chooses.
Idle == [kind |-> "idle"]
BusRead(address) == [kind |-> "read", address |-> address]
BusWrite(address, data) == [kind |-> "write", address |-> address, data |-> data]

MOS6502_cycle(n, access) ==
    LET ran == [n EXCEPT !.cpu.cycles = @ + 1] IN
    IF access.kind = "read" THEN Bus_read(ran, access.address).nes
    ELSE IF access.kind = "write" THEN Bus_write(ran, access.address, access.data)
    ELSE ran

\* Nes::cycle, the match on (cycle_count, dma_status) with DMA enabled
dma_cycle(n) ==
    LET d == n.dma_status
        c == n.cycle_count
    IN  IF d.dma_wait /\ c % 2 = 1
        THEN [n EXCEPT !.dma_status.dma_wait = FALSE]
        ELSE IF d.dma_wait THEN n
        ELSE IF c % 2 = 0
        THEN LET buffer(r) == [r.nes EXCEPT !.dma_status.dma_buffer = r.value]
             IN  buffer(Bus_read(n, d.dma_start_address + d.dma_count))
        ELSE LET written == [n EXCEPT !.ppu = oam_dma_write(@, d.dma_count, d.dma_buffer)]
                 count == (d.dma_count + 1) % 256
             IN  IF count = 0
                 THEN [written EXCEPT !.dma_status = NoDma]
                 ELSE [written EXCEPT !.dma_status.dma_count = count]

\* cycle_slot with the CPU running on every master cycle that has no DMA
cycle_slot_every_cycle(n, access) ==
    IF ~n.dma_status.active
    THEN [nes |-> MOS6502_cycle(n, access), ran |-> <<"cpu">>]
    ELSE IF n.cycle_count % 3 = 0
    THEN [nes |-> dma_cycle(n), ran |-> <<"dma">>]
    ELSE [nes |-> n, ran |-> <<>>]

\* Nes::cycle, the `if self.cycle_count % 3 == 0` block: who gets the slot
cycle_slot(n, access) ==
    IF n.cycle_count % 3 = 0
    THEN IF ~n.dma_status.active
         THEN [nes |-> MOS6502_cycle(n, access), ran |-> <<"cpu">>]
         ELSE [nes |-> dma_cycle(n), ran |-> <<"dma">>]
    ELSE [nes |-> n, ran |-> <<>>]

\* Nes::cycle, `self.bus.ppu.cycle(&mut self.bus.cartridge, &mut self.cpu)`
cycle_ppu(n) ==
    LET stepped(r) ==
            [nes |-> [n EXCEPT !.ppu = r.ppu, !.mapper = r.mapper, !.cpu = r.cpu,
                               !.panic = r.panic],
             eos |-> r.eos]
    IN  stepped(NesPpu_cycle(n.ppu, n.mapper, n.cpu))

\* Nes::cycle, the poll of the cartridge's interrupt request
cycle_poll(n) ==
    LET polled(r) ==
            [nes |-> [n EXCEPT !.mapper = r.mapper,
                               !.cpu.irq = IF r.value THEN TRUE ELSE @],
             value |-> r.value]
    IN  polled(get_pending_interrupt_request(n.mapper))

\* Nes::cycle with the interrupt poll made before the PPU step
Nes_cycle_poll_first(n, access) ==
    LET after_ppu(s, q, p) ==
            [nes |-> [p.nes EXCEPT !.cycle_count = @ + 1],
             log |-> s.ran \o <<"poll", "ppu">>,
             eos |-> p.eos,
             raised |-> p.nes.mapper.pending_interrupt_request
                        /\ ~q.nes.mapper.pending_interrupt_request,
             poll |-> q.value]
        after_poll(s, q) == after_ppu(s, q, cycle_ppu(q.nes))
        after_slot(s) == after_poll(s, cycle_poll(s.nes))
    IN  after_slot(cycle_slot(n, access))

\* Nes::cycle.  `log` lists the parts of the call in the order they ran; a
\* panic ends the call where it happens.
Nes_cycle(n, access) ==
    LET after_poll(s, p, q) ==
            [nes |-> [q.nes EXCEPT !.cycle_count = @ + 1],
             log |-> s.ran \o <<"ppu", "poll">>,
             eos |-> p.eos,
             raised |-> p.nes.mapper.pending_interrupt_request
                        /\ ~s.nes.mapper.pending_interrupt_request,
             poll |-> q.value]
        after_ppu(s, p) ==
            IF p.nes.panic
            THEN [nes |-> p.nes, log |-> s.ran \o <<"ppu">>, eos |-> p.eos,
                  raised |-> FALSE, poll |-> FALSE]
            ELSE after_poll(s, p, cycle_poll(p.nes))
        after_slot(s) ==
            IF s.nes.panic
            THEN [nes |-> s.nes, log |-> s.ran, eos |-> FALSE, raised |-> FALSE,
                  poll |-> FALSE]
            ELSE after_ppu(s, cycle_ppu(s.nes))
    IN  after_slot(cycle_slot(n, access))

\* Nes::frame's loop condition with the loop running one frame longer
frame_running_twice(n, current_frame) == n.ppu.frame_count < current_frame + 2

\* Nes::frame, `while self.bus.ppu.frame_count == current_frame`
frame_running(n, current_frame) == n.ppu.frame_count = current_frame

\* Nes::reset with Bus::reset.  MOS6502::reset reads the reset vector from
\* the cartridge and changes nothing the bus holds; what the processor has
\* been told is counted from its last reset.
Nes_reset(n) ==
    [n EXCEPT !.cycle_count = 0, !.cpu = MOS6502_new, !.ppu = NesPpu_reset(@)]

\* The console as the variables hold it
Console ==
    [ ppu |-> ppu, mapper |-> mapper, cpu |-> cpu, ram |-> ram,
      dma_status |-> dma_status, cycle_count |-> cycle_count,
      input_device_one |-> input_device_one, panic |-> panic ]

Holds(n) ==
    /\ ppu = n.ppu
    /\ mapper = n.mapper
    /\ cpu = n.cpu
    /\ ram = n.ram
    /\ dma_status = n.dma_status
    /\ cycle_count = n.cycle_count
    /\ input_device_one = n.input_device_one
    /\ panic = n.panic

Becomes(n) ==
    /\ ppu' = n.ppu
    /\ mapper' = n.mapper
    /\ cpu' = n.cpu
    /\ ram' = n.ram
    /\ dma_status' = n.dma_status
    /\ cycle_count' = n.cycle_count
    /\ input_device_one' = n.input_device_one
    /\ panic' = n.panic


\* The parts of the console a PPU-only run does not touch
BusIdle ==
    /\ ram = Empty
    /\ dma_status = NoDma
    /\ cycle_count = 0
    /\ input_device_one = Disconnected

(***************************************************************************)
(* SpecRegisters: a PPU on its own, driven through its eight registers and *)
(* its cycle.  A register access costs the PPU no time, so every           *)
(* combination of position and register contents below is reached from     *)
(* NesPpu::new by cycles followed by writes; Init starts from a sample of  *)
(* them.                                                                   *)
(***************************************************************************)
MaxRegisterSteps == 2

AddressSamples == {0, 16383, 16415, 29631, 32767}
TemporarySamples == {0, 32767}
PositionSamples == {<<261, 0>>, <<0, 255>>, <<0, 256>>, <<239, 327>>, <<261, 279>>, <<261, 304>>, <<241, 0>>}
RegisterData == {0, 255}
RegisterAddresses == 8192 .. 8199

InitRegisters ==
    /\ \E v \in AddressSamples, t \in TemporarySamples, latch \in BOOLEAN,
          ctrl \in {0, VRAM_INCREMENT}, mask \in {0, BACKGROUND_ENABLE},
          pos \in PositionSamples :
            ppu = [NesPpu_new EXCEPT !.current_vram_address = v,
                                     !.temporary_vram_address = t,
                                     !.write_latch = latch,
                                     !.ctrl_flags = ctrl,
                                     !.mask_flags = mask,
                                     !.status_flags = 0,
                                     !.scanline = pos[1],
                                     !.cycle = pos[2]]
    /\ mapper = Mapper004_new
    /\ cpu = MOS6502_new
    /\ BusIdle
    /\ panic = FALSE
    /\ overflow_checks \in BOOLEAN
    /\ last = NoOp
    /\ mark = NoOp
    /\ steps = 0

RegisterWrite ==
    /\ ~panic
    /\ steps < MaxRegisterSteps
    /\ \E address \in RegisterAddresses, data \in RegisterData :
         LET done(r) ==
             /\ ppu' = r.ppu
             /\ panic' = r.panic
             /\ last' = [op |-> "write", offset |-> address % 8, data |-> data]
         IN  done(NesPpu_write(ppu, mapper, address, data))
    /\ steps' = steps + 1
    /\ UNCHANGED <<overflow_checks, mapper, cpu, ram, dma_status, cycle_count, input_device_one, mark>>

RegisterRead ==
    /\ ~panic
    /\ steps < MaxRegisterSteps
    /\ \E address \in RegisterAddresses :
         LET done(r) ==
             /\ ppu' = r.ppu
             /\ panic' = r.panic
             /\ last' = [op |-> "read", offset |-> address % 8, value |-> r.value]
         IN  done(NesPpu_read(ppu, mapper, address))
    /\ steps' = steps + 1
    /\ UNCHANGED <<overflow_checks, mapper, cpu, ram, dma_status, cycle_count, input_device_one, mark>>

RegisterCycle ==
    /\ ~panic
    /\ steps < MaxRegisterSteps
    /\ LET done(r) ==
             /\ ppu' = r.ppu
             /\ mapper' = r.mapper
             /\ cpu' = r.cpu
             /\ panic' = r.panic
             /\ last' = [op |-> "cycle", eos |-> r.eos]
       IN  done(NesPpu_cycle(ppu, mapper, cpu))
    /\ steps' = steps + 1
    /\ UNCHANGED <<overflow_checks, ram, dma_status, cycle_count, input_device_one, mark>>

NextRegisters == RegisterWrite \/ RegisterRead \/ RegisterCycle

SpecRegisters == InitRegisters /\ [][NextRegisters]_vars

\* C1: whatever register reads and writes and PPU cycles are performed, the
\* current VRAM address v and the temporary VRAM address t stay below 2^15.
C1_AddressesFitFifteenBits ==
    /\ ppu.current_vram_address < 32768
    /\ ppu.temporary_vram_address < 32768

\* A data port access has stepped v past the last VRAM address 0x3fff.
C1_Witness ==
    /\ last.op \in {"write", "read"}
    /\ last.offset = 7
    /\ ~panic
    /\ ppu.current_vram_address > 16383

\* C17: a read of a PPU register offset that holds nothing readable
\* (offsets 0, 1, 3, 5 and 6) returns zero and does not fail.
C17_UndefinedReadsReturnZero ==
    (last.op = "read" /\ last.offset \in {0, 1, 3, 5, 6})
       => (~panic /\ last.value = 0)

(***************************************************************************)
(* SpecMmc3: a Mapper004 on its own, driven through its interrupt          *)
(* registers, end_of_scanline and get_pending_interrupt_request.           *)
(***************************************************************************)
IrqRegisters == {49152, 49153, 57344, 57345}
IrqLatchData == {0, 1, 2}

InitMmc3 ==
    /\ ppu = NesPpu_new
    /\ mapper = Mapper004_new
    /\ cpu = MOS6502_new
    /\ BusIdle
    /\ panic = FALSE
    /\ overflow_checks = TRUE
    /\ last = NoOp
    /\ mark = NoOp
    /\ steps = 0

Mmc3Write ==
    /\ \E address \in IrqRegisters, data \in IrqLatchData :
         /\ mapper' = Mapper004_program_write(mapper, address, data)
         /\ last' = [op |-> "program_write", address |-> address, data |-> data]
    /\ UNCHANGED <<overflow_checks, ppu, cpu, ram, dma_status, cycle_count, input_device_one, panic,
                   mark, steps>>

Mmc3EndOfScanline ==
    /\ mapper' = end_of_scanline(mapper)
    /\ last' = [op |-> "end_of_scanline",
                enabled |-> mapper.interrupt_request_enabled,
                counter |-> mapper.scanline_counter,
                pending |-> mapper.pending_interrupt_request]
    /\ UNCHANGED <<overflow_checks, ppu, cpu, ram, dma_status, cycle_count, input_device_one, panic,
                   mark, steps>>

Mmc3PendingIrq ==
    /\ LET done(r) ==
             /\ mapper' = r.mapper
             /\ last' = [op |-> "pending_irq", value |-> r.value,
                         pending |-> mapper.pending_interrupt_request]
       IN  done(get_pending_interrupt_request(mapper))
    /\ UNCHANGED <<overflow_checks, ppu, cpu, ram, dma_status, cycle_count, input_device_one, panic,
                   mark, steps>>

NextMmc3 == Mmc3Write \/ Mmc3EndOfScanline \/ Mmc3PendingIrq

SpecMmc3 == InitMmc3 /\ [][NextMmc3]_vars

\* C2: an end_of_scanline call made while the IRQ is enabled, and on which
\* the scanline counter reaches zero, leaves an interrupt pending; a
\* pending_irq call returns the pending flag and clears it.
C2_ReachingZeroRaisesIrq ==
    /\ (last.op = "end_of_scanline" /\ last.enabled /\ mapper.scanline_counter = 0)
          => mapper.pending_interrupt_request
    /\ last.op = "pending_irq"
          => (last.value = last.pending /\ ~mapper.pending_interrupt_request)

(***************************************************************************)
(* Spec: the console from Nes::new, driven by Nes::cycle and Nes::reset.   *)
(* In its slot the CPU makes one of the bus accesses of CpuAccesses, the    *)
(* ones that steer the MMC3 scanline interrupt; the program sets the       *)
(* console up in the first MaxCpuStart cycles after power-on or reset and  *)
(* idles afterwards.                                                       *)
(***************************************************************************)
MaxTicks == 610
MaxCpuStart == 12
MaxResets == 1

CpuAccesses ==
    { Idle,
      BusWrite(8192, SPRITE_SELECT),
      BusWrite(8192, BACKGROUND_SELECT),
      BusWrite(8192, SPRITE_SELECT + BACKGROUND_SELECT),
      BusWrite(8193, SPRITE_ENABLE + BACKGROUND_ENABLE),
      BusWrite(57344, 0),
      BusWrite(57345, 0) }

\* what a cycle leaves in `last`
Observed(n, access, r) ==
    [op |-> "cycle",
     access |-> access,
     count |-> n.cycle_count,
     dma |-> n.dma_status,
     cycles |-> n.cpu.cycles,
     scanline |-> n.ppu.scanline,
     dot |-> n.ppu.cycle,
     frame |-> n.ppu.frame_count,
     log |-> r.log,
     eos |-> r.eos,
     raised |-> r.raised,
     poll |-> r.poll,
     eos_count |-> (IF n.ppu.cycle = 0 THEN 0 ELSE last.eos_count)
                   + (IF r.eos THEN 1 ELSE 0),
     irq_count |-> (IF n.ppu.cycle = 0 THEN 0 ELSE last.irq_count)
                   + (IF r.poll THEN 1 ELSE 0)]

Fresh == [op |-> "new", eos_count |-> 0, irq_count |-> 0]

Init ==
    /\ Holds(Nes_new)
    /\ overflow_checks = TRUE
    /\ last = Fresh
    /\ mark = NoOp
    /\ steps = 0

Cycle ==
    /\ ~panic
    /\ cycle_count < MaxTicks
    /\ \E access \in CpuAccesses :
         LET done(r) ==
                 /\ access # Idle => (cycle_count % 3 = 0 /\ cycle_count < MaxCpuStart)
                 /\ Becomes(r.nes)
                 /\ last' = Observed(Console, access, r)
         IN  done(Nes_cycle(Console, access))
    /\ UNCHANGED <<overflow_checks, mark, steps>>

Reset ==
    /\ ~panic
    /\ steps < MaxResets
    /\ Becomes(Nes_reset(Console))
    /\ last' = [op |-> "reset", eos_count |-> 0, irq_count |-> 0]
    /\ steps' = steps + 1
    /\ UNCHANGED <<overflow_checks, mark>>

Next == Cycle \/ Reset

Spec == Init /\ [][Next]_vars

\* C3: end_of_scanline is called at most once during a scanline, so the
\* MMC3 interrupt is raised and delivered at most once per scanline; an
\* interrupt raised by the PPU step is still pending when the same call polls
\* the mapper, which acknowledges it and forwards it to the CPU.
C3_IrqOncePerScanline ==
    /\ last.eos_count <= 1
    /\ last.irq_count <= 1
    /\ last.op = "cycle" =>
          /\ last.raised => last.eos
          /\ last.raised => (last.poll /\ cpu.irq)
          /\ last.poll => last.raised

\* The second scanline after a reset has clocked the counter and raised its
\* own interrupt.
C3_Witness ==
    /\ last.op = "cycle"
    /\ last.scanline = 1
    /\ last.dot = 260
    /\ last.eos /\ last.raised /\ last.poll
    /\ last.eos_count = 1
    /\ last.irq_count = 1

\* C6: a call to cycle() runs the CPU/DMA slot (if any), then the PPU step
\* exactly once, then the interrupt poll exactly once; the PPU moves on by one
\* dot, a true poll raises the IRQ on the CPU in the same call, and the cycle
\* count grows by exactly one.
C6_CycleOrder ==
    last.op = "cycle" =>
       /\ last.log \in {<<"cpu", "ppu", "poll">>, <<"dma", "ppu", "poll">>,
                        <<"ppu", "poll">>}
       /\ cycle_count = last.count + 1
       /\ \/ (ppu.scanline = last.scanline /\ ppu.cycle = last.dot + 1)
          \/ (ppu.scanline = (last.scanline + 1) % (MAX_SCANLINES + 1)
                /\ ppu.cycle = 0 /\ last.dot >= MAX_CYCLES_MINUS_ONE)
       /\ last.poll => cpu.irq
       /\ last.raised => last.poll

\* A cycle whose slot went to the CPU has run the PPU and then polled, and a
\* cycle whose PPU step clocked the MMC3 counter has raised the CPU's IRQ.
C6_Witness ==
    /\ last.op = "cycle"
    /\ last.poll
    /\ cpu.irq
    /\ last.log = <<"ppu", "poll">>
    /\ cycle_count = last.count + 1

\* C13: with rendering enabled, end_of_scanline is called on dot 260 of a
\* visible scanline when PpuCtrl::SPRITE_SELECT is set and on dot 324
\* otherwise, and by the end of the scanline it has been called exactly once.
C13_EndOfScanlineOnDot260Or324 ==
    (last.op = "cycle" /\ last.scanline <= 239 /\ rendering_enabled(ppu))
       => /\ last.eos => last.dot = IF intersects(ppu.ctrl_flags, SPRITE_SELECT)
                                    THEN 260 ELSE 324
          /\ last.dot = MAX_CYCLES => last.eos_count = 1

(***************************************************************************)
(* SpecDma: the console from Nes::new with a program that writes a few     *)
(* bytes of page 2, sets the OAM address and starts an OAM DMA, all within *)
(* the first MaxDmaStart cycles.                                           *)
(***************************************************************************)
MaxDmaStart == 18
MaxDmaTicks == 1575

DmaAccesses ==
    { Idle,
      BusWrite(512, 58),
      BusWrite(767, 119),
      BusWrite(8195, 254),
      BusWrite(16404, 2) }

InitDma ==
    /\ Holds(Nes_new)
    /\ overflow_checks = TRUE
    /\ last = Fresh
    /\ mark = NoOp
    /\ steps = 0

DmaCycle ==
    /\ ~panic
    /\ cycle_count < MaxDmaTicks
    /\ \E access \in DmaAccesses :
         LET done(r) ==
                 /\ access # Idle => (cycle_count % 3 = 0 /\ cycle_count < MaxDmaStart)
                 /\ Becomes(r.nes)
                 /\ last' = Observed(Console, access, r)
                 /\ mark' = IF access = BusWrite(16404, 2) /\ r.log[1] = "cpu"
                            THEN [op |-> "dma", count |-> cycle_count,
                                  cycles |-> r.nes.cpu.cycles,
                                  oam_address |-> ppu.oam_address]
                            ELSE mark
         IN  done(Nes_cycle(Console, access))
    /\ UNCHANGED <<overflow_checks, steps>>

NextDma == DmaCycle

SpecDma == InitDma /\ [][NextDma]_vars

\* ticks performed since the call that wrote 0x4014
SinceDmaWrite == cycle_count - (mark.count + 1)

\* page 2 of work RAM is in OAM, rotated by the OAM address the DMA found
Copied ==
    \A i \in 0 .. 255 :
        Load(ppu.object_attribute_memory, (mark.oam_address + i) % 256, OAM_FILL)
          = Load(ram, 512 + i, RAM_FILL)

\* C4 as stated: 513 master ticks after a write of page 2 to 0x4014 made on an
\* odd master cycle, the DMA is finished, page 2 is in OAM and the CPU has
\* not run.
C4_CopyIn513Ticks ==
    (mark.op = "dma" /\ mark.count % 2 = 1 /\ SinceDmaWrite = 513)
       => (~dma_status.active /\ Copied /\ cpu.cycles = mark.cycles)

\* C4, amended: after a write of page 2 to 0x4014 made on an odd master
\* cycle the DMA owns the next 1542 master ticks; the CPU executes no cycle
\* in them, the DMA is active until the last of them and finished after it,
\* and page 2 of work RAM is then in OAM from the OAM address on, modulo 256.
C4_CopyIn1542Ticks ==
    (mark.op = "dma" /\ mark.count % 2 = 1) =>
       /\ SinceDmaWrite <= 1542 => cpu.cycles = mark.cycles
       /\ SinceDmaWrite < 1542 => dma_status.active
       /\ SinceDmaWrite = 1542 => (~dma_status.active /\ Copied)

\* A DMA started on an odd cycle with the OAM address at 0xfe has finished:
\* the byte written to 0x02ff sits at OAM index (0xfe + 0xff) mod 256.
C4_Witness ==
    /\ mark.op = "dma"
    /\ mark.count % 2 = 1
    /\ mark.oam_address = 254
    /\ SinceDmaWrite = 1542
    /\ ~dma_status.active
    /\ Load(ppu.object_attribute_memory, 253, OAM_FILL) = 119
    /\ Load(ppu.object_attribute_memory, 254, OAM_FILL) = 58

\* C5: on a master cycle that is a multiple of three exactly one of the CPU
\* and the DMA state machine advances, the CPU if and only if no DMA is
\* active; on any other master cycle neither advances.
C5_SlotIsExclusive ==
    last.op = "cycle" =>
       LET cpu_ran == cpu.cycles # last.cycles
           dma_ran == "dma" \in {last.log[i] : i \in DOMAIN last.log}
       IN  /\ cpu.cycles \in {last.cycles, last.cycles + 1}
           /\ cpu_ran <=> ("cpu" \in {last.log[i] : i \in DOMAIN last.log})
           /\ IF last.count % 3 = 0
              THEN /\ cpu_ran # dma_ran
                   /\ cpu_ran <=> ~last.dma.active
                   /\ dma_ran => cpu.cycles = last.cycles
              ELSE /\ ~cpu_ran
                   /\ ~dma_ran
                   /\ dma_status = last.dma

\* The DMA had the slot of a master cycle that is a multiple of three and
\* the CPU stood still.
C5_Witness ==
    /\ last.op = "cycle"
    /\ last.count % 3 = 0
    /\ last.dma.active
    /\ last.log[1] = "dma"
    /\ cpu.cycles = last.cycles
    /\ dma_status # last.dma

(***************************************************************************)
(* SpecVblank: a PPU from NesPpu::new whose NMI-enable bit may be set      *)
(* before the first cycle, stepped by NesPpu::cycle, with the status       *)
(* register read at any moment.  `steps` counts the cycles.                *)
(***************************************************************************)
MaxVblankTicks == 82530

InitVblank ==
    /\ ppu = NesPpu_new
    /\ mapper = Mapper004_new
    /\ cpu = MOS6502_new
    /\ BusIdle
    /\ panic = FALSE
    /\ overflow_checks = TRUE
    /\ last = NoOp
    /\ mark = NoOp
    /\ steps = 0

VblankEnableNmi ==
    /\ steps = 0
    /\ last = NoOp
    /\ LET done(r) ==
             /\ ppu' = r.ppu
             /\ panic' = r.panic
       IN  done(NesPpu_write(ppu, mapper, 8192, NMI_ENABLE))
    /\ last' = [op |-> "write"]
    /\ UNCHANGED <<overflow_checks, mapper, cpu, ram, dma_status, cycle_count,
                   input_device_one, mark, steps>>

VblankCycle ==
    /\ ~panic
    /\ steps < MaxVblankTicks
    /\ LET done(r) ==
             /\ ppu' = r.ppu
             /\ mapper' = r.mapper
             /\ cpu' = r.cpu
             /\ panic' = r.panic
       IN  done(NesPpu_cycle(ppu, mapper, cpu))
    /\ last' = [op |-> "cycle"]
    /\ steps' = steps + 1
    /\ UNCHANGED <<overflow_checks, ram, dma_status, cycle_count, input_device_one,
                   mark>>

VblankStatusRead ==
    /\ ~panic
    /\ LET done(r) ==
             /\ ppu' = r.ppu
             /\ panic' = r.panic
             /\ last' = [op |-> "read", value |-> r.value,
                         after |-> IF last.op = "read" THEN <<last.value>> ELSE <<>>]
       IN  done(NesPpu_read(ppu, mapper, 8194))
    /\ UNCHANGED <<overflow_checks, mapper, cpu, ram, dma_status, cycle_count,
                   input_device_one, mark, steps>>

NextVblank == VblankEnableNmi \/ VblankCycle \/ VblankStatusRead

SpecVblank == InitVblank /\ [][NextVblank]_vars

\* a status read that directly follows another returns the same bits with
\* bit 7 cleared
SecondReadDropsBit7 ==
    (last.op = "read" /\ last.after # <<>>)
       => last.value = BitAnd(last.after[1], 255 - VERTICAL_BLANK)

\* C7 as stated: a PPU constructed with NMI-enable set has requested an NMI
\* after exactly 241 * 341 + 2 cycles, a status read then has bit 7 set, and
\* a second consecutive read returns the same bits with bit 7 cleared.
C7_NmiAfter241Lines ==
    /\ (steps = 241 * 341 + 2 /\ intersects(ppu.ctrl_flags, NMI_ENABLE)) =>
          /\ cpu.nmi
          /\ (last.op = "read" /\ last.after = <<>>)
                => intersects(last.value, VERTICAL_BLANK)
    /\ SecondReadDropsBit7

\* C7, amended: NesPpu::new starts on the pre-render scanline 261, so the
\* NMI is requested by cycle number 242 * 341 + 2 and not before; a status
\* read then has bit 7 set, and a second consecutive read returns the same
\* bits with bit 7 cleared.
C7_NmiAfter242Lines ==
    /\ intersects(ppu.ctrl_flags, NMI_ENABLE) =>
          /\ steps < 242 * 341 + 2 => ~cpu.nmi
          /\ steps >= 242 * 341 + 2 => cpu.nmi
          /\ (steps = 242 * 341 + 2 /\ last.op = "read" /\ last.after = <<>>)
                => intersects(last.value, VERTICAL_BLANK)
    /\ SecondReadDropsBit7

\* The status register was read twice in a row right after cycle number
\* 242 * 341 + 2 of a PPU with NMI-enable set: the first read had bit 7.
C7_Witness ==
    /\ steps = 242 * 341 + 2
    /\ intersects(ppu.ctrl_flags, NMI_ENABLE)
    /\ cpu.nmi
    /\ last.op = "read"
    /\ last.after # <<>>
    /\ intersects(last.after[1], VERTICAL_BLANK)
    /\ ~intersects(last.value, VERTICAL_BLANK)

(***************************************************************************)
(* SpecFrames: a PPU from NesPpu::new, rendering switched on before the    *)
(* first cycle, stepped by NesPpu::cycle through its first frames.  `mark` *)
(* keeps the length of the frame that ended last and of the one before.    *)
(***************************************************************************)
MaxFrameTicks == 179030

NoFrame == [op |-> "frame", frame |-> -1, at |-> 0, length |-> 0, dot |-> 0, before |-> 0]

InitFrames ==
    /\ ppu = NesPpu_new
    /\ mapper = Mapper004_new
    /\ cpu = MOS6502_new
    /\ BusIdle
    /\ panic = FALSE
    /\ overflow_checks = TRUE
    /\ last = NoOp
    /\ mark = NoFrame
    /\ steps = 0

FramesEnableRendering ==
    /\ steps = 0
    /\ last = NoOp
    /\ \E data \in {BACKGROUND_ENABLE, SPRITE_ENABLE + BACKGROUND_ENABLE} :
         LET done(r) ==
             /\ ppu' = r.ppu
             /\ panic' = r.panic
         IN  done(NesPpu_write(ppu, mapper, 8193, data))
    /\ last' = [op |-> "write"]
    /\ UNCHANGED <<overflow_checks, mapper, cpu, ram, dma_status, cycle_count,
                   input_device_one, mark, steps>>

FramesCycle ==
    /\ ~panic
    /\ steps < MaxFrameTicks
    /\ LET done(r) ==
             /\ ppu' = r.ppu
             /\ mapper' = r.mapper
             /\ cpu' = r.cpu
             /\ panic' = r.panic
             /\ mark' = IF r.ppu.frame_count # ppu.frame_count
                        THEN [op |-> "frame", frame |-> ppu.frame_count, at |-> steps + 1,
                              length |-> steps + 1 - mark.at, dot |-> ppu.cycle,
                              before |-> mark.length]
                        ELSE mark
       IN  done(NesPpu_cycle(ppu, mapper, cpu))
    /\ last' = [op |-> "cycle"]
    /\ steps' = steps + 1
    /\ UNCHANGED <<overflow_checks, ram, dma_status, cycle_count, input_device_one>>

NextFrames == FramesEnableRendering \/ FramesCycle

SpecFrames == InitFrames /\ [][NextFrames]_vars

\* C8: with rendering enabled a frame takes 89341 cycles when its number is
\* odd (its pre-render scanline ends at dot 339) and 89342 when it is even
\* (dot 340), so two adjacent frames take 178683 cycles together.  A PPU is
\* constructed on the pre-render scanline: what comes before its first
\* frame rollover is that scanline alone, 341 cycles, and is not a frame.
C8_FramesAlternate ==
    rendering_enabled(ppu) =>
       /\ mark.frame = 0 => mark.length = 341
       /\ (mark.frame >= 1 /\ mark.frame % 2 = 1)
             => (mark.length = 89341 /\ mark.dot = MAX_CYCLES_MINUS_ONE)
       /\ (mark.frame >= 1 /\ mark.frame % 2 = 0)
             => (mark.length = 89342 /\ mark.dot = MAX_CYCLES)
       /\ mark.frame >= 2 => mark.length + mark.before = 178683

\* Frame 2 has ended with rendering enabled, after frame 1.
C8_Witness ==
    /\ rendering_enabled(ppu)
    /\ mark.frame = 2
    /\ mark.length = 89342
    /\ mark.before = 89341

(***************************************************************************)
(* SpecInput: the first controller port, driven by the host's              *)
(* update_controller_one and by the CPU's writes and reads of 0x4016.      *)
(* `last` also keeps, for the polls that follow a latch write, the input   *)
(* state that write found and how many polls have followed: `high` after a *)
(* write with bit 0 set, `low` after that write is followed by one with    *)
(* bit 0 clear.                                                            *)
(***************************************************************************)
MaxInputSteps == 12

InputStates == {1, 165, 254}
LatchData == {0, 1}

NoPolls == [x |-> 0, n |-> -1]

InitInput ==
    /\ Holds(Nes_new)
    /\ overflow_checks = TRUE
    /\ last = [op |-> "new", high |-> NoPolls, low |-> NoPolls]
    /\ mark = NoOp
    /\ steps = 0

InputUpdate ==
    /\ steps < MaxInputSteps
    /\ \E input_state \in {<<>>} \cup {<<x>> : x \in InputStates} :
         /\ input_device_one' = update_controller_one(input_device_one, input_state)
         /\ last' = [op |-> "update", input_state |-> input_state, high |-> NoPolls,
                     low |-> IF input_state = <<>> THEN NoPolls ELSE last.low]
    /\ steps' = steps + 1
    /\ UNCHANGED <<overflow_checks, ppu, mapper, cpu, ram, dma_status, cycle_count,
                   panic, mark>>

InputLatch ==
    /\ steps < MaxInputSteps
    /\ \E data \in LatchData :
         /\ Becomes(Bus_write(Console, 16406, data))
         /\ last' = [op |-> "latch", data |-> data,
                     high |-> IF input_device_one.connected /\ data % 2 = 1
                              THEN [x |-> input_device_one.input_state, n |-> 0]
                              ELSE NoPolls,
                     low |-> IF data % 2 = 0 /\ last.op = "latch" /\ last.high.n = 0
                             THEN last.high
                             ELSE NoPolls]
    /\ steps' = steps + 1
    /\ UNCHANGED <<overflow_checks, mark>>

InputPoll ==
    /\ steps < MaxInputSteps
    /\ LET done(r) ==
             /\ Becomes(r.nes)
             /\ last' = [op |-> "poll", value |-> r.value,
                         high |-> IF last.high.n >= 0
                                  THEN [last.high EXCEPT !.n = @ + 1] ELSE NoPolls,
                         low |-> IF last.low.n >= 0
                                 THEN [last.low EXCEPT !.n = @ + 1] ELSE NoPolls]
       IN  done(Bus_read(Console, 16406))
    /\ steps' = steps + 1
    /\ UNCHANGED <<overflow_checks, mark>>

NextInput == InputUpdate \/ InputLatch \/ InputPoll

SpecInput == InitInput /\ [][NextInput]_vars

\* what poll number n (from 1) reports of the input state x
Reported(x, n) == IF n <= 8 THEN Shr(x, n - 1) % 2 ELSE 1

\* C9 as stated: after a latch write with bit 0 set while the input state is
\* X, the first eight polls return bits 0 to 7 of X on bit 0 and every later
\* poll returns 1.
C9_PollsAfterLatchHigh ==
    (last.op = "poll" /\ last.high.n >= 1)
       => last.value % 2 = Reported(last.high.x, last.high.n)

\* C9, amended: after a latch write with bit 0 set while the input state is
\* X, followed by a latch write with bit 0 clear, the first eight polls
\* return bits 0 to 7 of X on bit 0 and every later poll returns 1.
C9_PollsAfterLatchLow ==
    (last.op = "poll" /\ last.low.n >= 1)
       => last.value % 2 = Reported(last.low.x, last.low.n)

\* Nine polls have followed a high and a low latch write that found the
\* input state 0xa5; the eighth returned its bit 7 and the ninth the filler.
C9_Witness ==
    /\ last.op = "poll"
    /\ last.low.n = 9
    /\ last.low.x = 165
    /\ last.value = 1
    /\ input_device_one.shift_register = 255

(***************************************************************************)
(* SpecVram: the palette behind the PPU's internal bus, written and read   *)
(* with NesPpu::vram_write and NesPpu::vram_read.                          *)
(***************************************************************************)
MaxVramSteps == 3

PaletteAddresses ==
    {16128, 16144, 16132, 16148, 16129, 16145, 16140, 16156, 16160, 16176,
     16364, 16380}
PaletteData == {58, 21}

\* the addresses of 0x3f00..=0x3fff that alias a background entry
SpritePaletteAliases == {a \in 16128 .. 16383 : BitAnd(a, 19) = 16}

InitVram ==
    /\ ppu = NesPpu_new
    /\ mapper = Mapper004_new
    /\ cpu = MOS6502_new
    /\ BusIdle
    /\ panic = FALSE
    /\ overflow_checks = TRUE
    /\ last = NoOp
    /\ mark = NoOp
    /\ steps = 0

VramWrite ==
    /\ ~panic
    /\ steps < MaxVramSteps
    /\ \E address \in PaletteAddresses, data \in PaletteData :
         LET done(r) ==
             /\ ppu' = r.ppu
             /\ panic' = r.panic
             /\ last' = [op |-> "vram_write", address |-> address, data |-> data,
                         before |-> ppu.palette_ram]
         IN  done(vram_write(ppu, mapper, address, data))
    /\ steps' = steps + 1
    /\ UNCHANGED <<overflow_checks, mapper, cpu, ram, dma_status, cycle_count,
                   input_device_one, mark>>

VramRead ==
    /\ ~panic
    /\ steps < MaxVramSteps
    /\ \E address \in PaletteAddresses :
         LET done(r) ==
             /\ panic' = r.panic
             /\ last' = [op |-> "vram_read", address |-> address, value |-> r.value]
         IN  done(vram_read(ppu, mapper, address))
    /\ steps' = steps + 1
    /\ UNCHANGED <<overflow_checks, ppu, mapper, cpu, ram, dma_status, cycle_count,
                   input_device_one, mark>>

NextVram == VramWrite \/ VramRead

SpecVram == InitVram /\ [][NextVram]_vars

\* C10: for every a in 0x3f00..=0x3fff with a & 0x13 = 0x10, a read at a
\* returns what a read at a & ~0x10 returns, and a write at a leaves the
\* palette as the write at a & ~0x10 would, so the written byte is read back
\* at a & ~0x10.
C10_SpritePaletteAlias ==
    /\ \A a \in SpritePaletteAliases :
          vram_read(ppu, mapper, a) = vram_read(ppu, mapper, BitAnd(a, Not16(16)))
    /\ (last.op = "vram_read" /\ last.address \in SpritePaletteAliases)
          => last.value = vram_read(ppu, mapper, BitAnd(last.address, Not16(16))).value
    /\ (last.op = "vram_write" /\ last.address \in SpritePaletteAliases)
          => /\ vram_read(ppu, mapper, BitAnd(last.address, Not16(16))).value = last.data
             /\ vram_read(ppu, mapper, last.address).value = last.data
             /\ ppu.palette_ram =
                  vram_write([ppu EXCEPT !.palette_ram = last.before], mapper,
                             BitAnd(last.address, Not16(16)), last.data).ppu.palette_ram

\* 0x3a was written to 0x3f10 and a read of 0x3f00 returns it.
C10_Witness ==
    /\ last.op = "vram_write"
    /\ last.address = 16144
    /\ last.data = 58
    /\ vram_read(ppu, mapper, 16128).value = 58
    /\ Load(last.before, 0, PALETTE_FILL) # 58

(***************************************************************************)
(* SpecNameTable: the name tables behind the PPU's internal bus, written   *)
(* and read with NesPpu::vram_write and NesPpu::vram_read under each       *)
(* mirroring a cartridge can report.                                       *)
(***************************************************************************)
MaxNameTableSteps == 2

\* addresses of 0x3000..=0x3eff, the first and last of each table among them
NameTableMirrors == {12288, 13311, 13312, 14335, 14336, 15359, 15360, 16127}
NameTableAddresses == NameTableMirrors \cup {a - 4096 : a \in NameTableMirrors}
NameTableData == {58, 21}

\* one cartridge for each way of answering get_mirroring
NameTableCartridges ==
    { Mapper000_new("Horizontal"), Mapper000_new("Vertical"), Mapper004_new,
      Mapper004_program_write(Mapper004_new, 40960, 0) }
    \cup { [Mapper001_new("Horizontal") EXCEPT !.control_register = control] :
              control \in 28 .. 31 }

InitNameTable ==
    /\ ppu = NesPpu_new
    /\ mapper \in NameTableCartridges
    /\ cpu = MOS6502_new
    /\ BusIdle
    /\ panic = FALSE
    /\ overflow_checks = TRUE
    /\ last = NoOp
    /\ mark = NoOp
    /\ steps = 0

NameTableWrite ==
    /\ ~panic
    /\ steps < MaxNameTableSteps
    /\ \E address \in NameTableAddresses, data \in NameTableData :
         LET done(r) ==
             /\ ppu' = r.ppu
             /\ panic' = r.panic
             /\ last' = [op |-> "vram_write", address |-> address, data |-> data,
                         before |-> ppu.name_table]
         IN  done(vram_write(ppu, mapper, address, data))
    /\ steps' = steps + 1
    /\ UNCHANGED <<overflow_checks, mapper, cpu, ram, dma_status, cycle_count,
                   input_device_one, mark>>

NameTableRead ==
    /\ ~panic
    /\ steps < MaxNameTableSteps
    /\ \E address \in NameTableAddresses :
         LET done(r) ==
             /\ panic' = r.panic
             /\ last' = [op |-> "vram_read", address |-> address, value |-> r.value]
         IN  done(vram_read(ppu, mapper, address))
    /\ steps' = steps + 1
    /\ UNCHANGED <<overflow_checks, ppu, mapper, cpu, ram, dma_status, cycle_count,
                   input_device_one, mark>>

NextNameTable == NameTableWrite \/ NameTableRead

SpecNameTable == InitNameTable /\ [][NextNameTable]_vars

\* C11: under every mirroring, an address a of 0x3000..=0x3eff names the
\* name table cell that a - 0x1000 names, so a read at a returns what a read
\* at a - 0x1000 returns and a write at a changes the name table as the
\* write at a - 0x1000 does.
C11_NameTableMirror ==
    /\ steps = 0 =>
          \A a \in 12288 .. 16127 :
              apply_name_table_mirroring(mapper, a)
                = apply_name_table_mirroring(mapper, a - 4096)
    /\ \A a \in NameTableMirrors :
          /\ vram_read(ppu, mapper, a) = vram_read(ppu, mapper, a - 4096)
          /\ \A d \in NameTableData :
                vram_write(ppu, mapper, a, d) = vram_write(ppu, mapper, a - 4096, d)
    /\ (last.op = "vram_read" /\ last.address \in NameTableMirrors)
          => last.value = vram_read(ppu, mapper, last.address - 4096).value
    /\ (last.op = "vram_write" /\ last.address \in NameTableMirrors)
          => /\ vram_read(ppu, mapper, last.address - 4096).value = last.data
             /\ ppu = vram_write([ppu EXCEPT !.name_table = last.before], mapper,
                                 last.address - 4096, last.data).ppu

\* Under vertical mirroring 0x3a was written to 0x2400 and a read of 0x3400
\* returns it, while 0x3000 still reads the fill.
C11_Witness ==
    /\ get_mirroring(mapper) = "Vertical"
    /\ last.op = "vram_read"
    /\ last.address = 13312
    /\ last.value = 58
    /\ Load(ppu.name_table, 1024, NAME_TABLE_FILL) = 58
    /\ vram_read(ppu, mapper, 12288).value = NAME_TABLE_FILL

(***************************************************************************)
(* SpecToggle: the write toggle shared by the scroll and address           *)
(* registers.  The program reads the status register and writes the scroll *)
(* and address registers in any order; `mark` lists the writes made since  *)
(* the last status read.                                                   *)
(***************************************************************************)
MaxToggleSteps == 6

ScrollData == {0, 165, 255}
AddressData == {0, 97, 255}

InitToggle ==
    /\ \E v \in AddressSamples, t \in TemporarySamples, latch \in BOOLEAN :
          ppu = [NesPpu_new EXCEPT !.current_vram_address = v,
                                   !.temporary_vram_address = t,
                                   !.write_latch = latch]
    /\ mapper = Mapper004_new
    /\ cpu = MOS6502_new
    /\ BusIdle
    /\ panic = FALSE
    /\ overflow_checks = TRUE
    /\ last = NoOp
    /\ mark = NoOp
    /\ steps = 0

ToggleStatusRead ==
    /\ ~panic
    /\ steps < MaxToggleSteps
    /\ LET done(r) ==
             /\ ppu' = r.ppu
             /\ panic' = r.panic
             /\ last' = [op |-> "read", offset |-> 2, value |-> r.value,
                         latch |-> ppu.write_latch]
       IN  done(NesPpu_read(ppu, mapper, 8194))
    /\ mark' = [op |-> "status", since |-> <<>>, latch |-> ppu.write_latch]
    /\ steps' = steps + 1
    /\ UNCHANGED <<overflow_checks, mapper, cpu, ram, dma_status, cycle_count,
                   input_device_one>>

ToggleWrite ==
    /\ ~panic
    /\ steps < MaxToggleSteps
    /\ \E w \in ({8197} \X ScrollData) \cup ({8198} \X AddressData) :
         LET done(r) ==
             /\ ppu' = r.ppu
             /\ panic' = r.panic
             /\ last' = [op |-> "write", offset |-> w[1] % 8, data |-> w[2]]
             /\ mark' = IF mark = NoOp THEN mark
                        ELSE [mark EXCEPT !.since = Append(@, <<w[1] % 8, w[2]>>)]
         IN  done(NesPpu_write(ppu, mapper, w[1], w[2]))
    /\ steps' = steps + 1
    /\ UNCHANGED <<overflow_checks, mapper, cpu, ram, dma_status, cycle_count,
                   input_device_one>>

NextToggle == ToggleStatusRead \/ ToggleWrite

SpecToggle == InitToggle /\ [][NextToggle]_vars

\* the writes since the last status read are scroll, scroll, address, address
ScrollScrollAddressAddress ==
    /\ mark # NoOp
    /\ Len(mark.since) = 4
    /\ mark.since[1][1] = 5
    /\ mark.since[2][1] = 5
    /\ mark.since[3][1] = 6
    /\ mark.since[4][1] = 6

\* C12: once a status read has cleared the write toggle, the writes
\* scroll(a), scroll(b), address(c), address(d) leave v = t = (c & 0x3f) << 8 | d
\* and the toggle clear, whatever the toggle was before the status read.
C12_ScrollAddressRoundTrip ==
    /\ (last.op = "read" /\ last.offset = 2) => ~ppu.write_latch
    /\ ScrollScrollAddressAddress
          => /\ ppu.current_vram_address
                  = BitAnd(mark.since[3][2], 63) * 256 + mark.since[4][2]
             /\ ppu.temporary_vram_address = ppu.current_vram_address
             /\ ~ppu.write_latch

\* The toggle was set when the status read was made; the four writes, with
\* c = 0xff and d = 0x61, have left v = 0x3f61.
C12_Witness ==
    /\ ScrollScrollAddressAddress
    /\ mark.latch
    /\ mark.since[1][2] = 165
    /\ mark.since[3][2] = 255
    /\ mark.since[4][2] = 97
    /\ ppu.current_vram_address = 16225
    /\ ppu.fine_x_scroll = 5

(***************************************************************************)
(* SpecIncrement: NesPpu::coarse_x_increment and NesPpu::y_increment       *)
(* applied to a PPU whose v holds each sampled combination of fine y,      *)
(* name table, coarse y and coarse x.                                      *)
(***************************************************************************)
MaxIncrementSteps == 2

IncrementSamples ==
    { fine_y * 4096 + table * 1024 + coarse_y * 32 + coarse_x :
        fine_y \in {0, 6, 7}, table \in 0 .. 3, coarse_y \in {0, 28, 29, 30, 31},
        coarse_x \in {0, 7, 30, 31} }
IncrementMasks == {0, BACKGROUND_ENABLE, SPRITE_ENABLE}

InitIncrement ==
    /\ \E v \in IncrementSamples, mask \in IncrementMasks :
          ppu = [NesPpu_new EXCEPT !.current_vram_address = v, !.mask_flags = mask]
    /\ mapper = Mapper004_new
    /\ cpu = MOS6502_new
    /\ BusIdle
    /\ panic = FALSE
    /\ overflow_checks = TRUE
    /\ last = NoOp
    /\ mark = NoOp
    /\ steps = 0

CoarseXIncrement ==
    /\ steps < MaxIncrementSteps
    /\ ppu' = coarse_x_increment(ppu)
    /\ last' = [op |-> "coarse_x_increment", before |-> ppu.current_vram_address]
    /\ steps' = steps + 1
    /\ UNCHANGED <<overflow_checks, mapper, cpu, ram, dma_status, cycle_count,
                   input_device_one, panic, mark>>

YIncrement ==
    /\ steps < MaxIncrementSteps
    /\ ppu' = y_increment(ppu)
    /\ last' = [op |-> "y_increment", before |-> ppu.current_vram_address]
    /\ steps' = steps + 1
    /\ UNCHANGED <<overflow_checks, mapper, cpu, ram, dma_status, cycle_count,
                   input_device_one, panic, mark>>

NextIncrement == CoarseXIncrement \/ YIncrement

SpecIncrement == InitIncrement /\ [][NextIncrement]_vars

\* C14: with rendering enabled coarse_x_increment turns coarse x 31 into 0
\* and flips bit 10 of v, and adds one to any other coarse x, leaving every
\* other bit; v = 0b000_11_00000_11111 becomes 0b000_10_00000_00000.  With
\* rendering disabled v is unchanged.
C14_CoarseXIncrement ==
    last.op = "coarse_x_increment"
       => IF ~rendering_enabled(ppu)
          THEN ppu.current_vram_address = last.before
          ELSE IF last.before % 32 = 31
          THEN /\ ppu.current_vram_address =
                     last.before - 31
                     + (IF (last.before \div 1024) % 2 = 1 THEN -1024 ELSE 1024)
               /\ last.before = 3103 => ppu.current_vram_address = 2048
          ELSE ppu.current_vram_address = last.before + 1

\* coarse_x_increment has turned v = 0b000_11_00000_11111 into
\* 0b000_10_00000_00000 with rendering enabled.
C14_Witness ==
    /\ last.op = "coarse_x_increment"
    /\ last.before = 3103
    /\ rendering_enabled(ppu)
    /\ ppu.current_vram_address = 2048

\* C15 as stated: with rendering enabled y_increment turns
\* v = 0b111_00_11101_11111 into 0b000_01_00000_11111.
C15_CoarseYWrapToBit10 ==
    (last.op = "y_increment" /\ last.before = 29631 /\ rendering_enabled(ppu))
       => ppu.current_vram_address = 1055

\* C15: with rendering enabled y_increment turns v = 0b111_00_11101_11111
\* into 0b000_10_00000_11111: fine y 0, coarse y 0, bit 11 flipped, coarse x
\* and bit 10 untouched.
C15_CoarseYWrapFlipsBit11 ==
    (last.op = "y_increment" /\ last.before = 29631 /\ rendering_enabled(ppu))
       => ppu.current_vram_address = 2079

\* y_increment has been applied to v = 0b111_00_11101_11111 with rendering
\* enabled and has set bit 11.
C15_Witness ==
    /\ last.op = "y_increment"
    /\ last.before = 29631
    /\ rendering_enabled(ppu)
    /\ (ppu.current_vram_address \div 2048) % 2 = 1
    /\ ppu.current_vram_address % 2048 = 31

(***************************************************************************)
(* SpecReset: the console from Nes::new with a program that sets up the    *)
(* PPU and the cartridge's registers during the first MaxResetTicks        *)
(* cycles, and a host that calls Nes::reset at any moment.                 *)
(***************************************************************************)
MaxResetTicks == 13

ResetAccesses ==
    { BusWrite(8192, NMI_ENABLE + SPRITE_SELECT + VRAM_INCREMENT + 3),
      BusWrite(8193, SPRITE_ENABLE + BACKGROUND_ENABLE),
      BusWrite(8197, 165),
      BusWrite(8198, 63),
      BusWrite(8199, 58),
      BusRead(8199),
      BusWrite(40960, 0),
      BusWrite(49152, 2),
      BusWrite(57345, 0) }

InitReset ==
    /\ Holds(Nes_new)
    /\ overflow_checks = TRUE
    /\ last = NoOp
    /\ mark = NoOp
    /\ steps = 0

ResetCycle ==
    /\ ~panic
    /\ steps = 0
    /\ cycle_count < MaxResetTicks
    /\ \E access \in ResetAccesses :
         LET done(r) ==
                 /\ Becomes(r.nes)
                 /\ last' = [op |-> "cycle", log |-> r.log]
         IN  done(Nes_cycle(Console, access))
    /\ UNCHANGED <<overflow_checks, mark, steps>>

ResetHost ==
    /\ ~panic
    /\ steps = 0
    /\ Becomes(Nes_reset(Console))
    /\ last' = [op |-> "reset", before |-> Console]
    /\ steps' = steps + 1
    /\ UNCHANGED <<overflow_checks, mark>>

NextReset == ResetCycle \/ ResetHost

SpecReset == InitReset /\ [][NextReset]_vars

\* C16: Nes::reset leaves the VBLANK flag and the cartridge as they were,
\* clears the PPU's control and mask registers, write toggle, read buffer,
\* fine x and t, puts the PPU at scanline 0, cycle 0, and resets the CPU in
\* the same call.
C16_ResetKeepsVblankAndCartridge ==
    last.op = "reset"
       => /\ intersects(ppu.status_flags, VERTICAL_BLANK)
               = intersects(last.before.ppu.status_flags, VERTICAL_BLANK)
          /\ mapper = last.before.mapper
          /\ ppu.ctrl_flags = 0
          /\ ppu.mask_flags = 0
          /\ ~ppu.write_latch
          /\ ppu.read_buffer = 0
          /\ ppu.fine_x_scroll = 0
          /\ ppu.temporary_vram_address = 0
          /\ ppu.cycle = 0
          /\ ppu.scanline = 0
          /\ cpu = MOS6502_new

\* The host reset a console whose VBLANK flag was still set and whose
\* program had just written the control register; the flag is still set and
\* the control register is clear.
C16_Witness ==
    /\ last.op = "reset"
    /\ intersects(last.before.ppu.status_flags, VERTICAL_BLANK)
    /\ last.before.ppu.ctrl_flags # 0
    /\ last.before.ppu.temporary_vram_address # 0
    /\ last.before.cpu # MOS6502_new
    /\ intersects(ppu.status_flags, VERTICAL_BLANK)
    /\ ppu.ctrl_flags = 0


(***************************************************************************)
(* SpecProgram: the CPU side of a cartridge.  Each of the five mappers     *)
(* starts as get_mapper builds it, with a program ROM of whole 16 KiB      *)
(* banks and a program RAM that may be empty; mark holds the two           *)
(* memories.  The CPU writes registers and program RAM and reads back.     *)
(***************************************************************************)
MaxProgramSteps == 4

InitProgram ==
    /\ ppu = NesPpu_new
    /\ mapper \in { Mapper000_new("Horizontal"), Mapper001_new("Horizontal"),
                    Mapper002_new("Vertical"), Mapper003_new("Vertical"),
                    Mapper004_new }
    /\ cpu = MOS6502_new
    /\ BusIdle
    /\ panic = FALSE
    /\ overflow_checks = TRUE
    /\ last = NoOp
    /\ \E rom \in {32768, 262144}, prg_ram \in {0, 8192} :
          mark = [program_rom |-> Memory(rom), program_ram |-> Memory(prg_ram)]
    /\ steps = 0

ProgramRead ==
    /\ steps < MaxProgramSteps
    /\ ~panic
    /\ \E address \in {0, 24575, 24576, 32767, 32768, 49151, 49152, 65535} :
          LET done(r) ==
                  /\ last' = [op |-> "program_read", address |-> address,
                              value |-> r.value]
                  /\ panic' = r.panic
          IN  done(program_read(mapper, mark.program_rom, mark.program_ram, address))
    /\ steps' = steps + 1
    /\ UNCHANGED <<overflow_checks, ppu, mapper, cpu, ram, dma_status, cycle_count,
                   input_device_one, mark>>

ProgramWrite ==
    /\ steps < MaxProgramSteps
    /\ ~panic
    /\ \E address \in {24576, 32768, 32769, 57344}, data \in {0, 1, 70, 128} :
          LET done(r) ==
                  /\ mapper' = r.mapper
                  /\ mark' = [mark EXCEPT !.program_ram = r.program_ram]
                  /\ panic' = r.panic
                  /\ last' = [op |-> "program_write", address |-> address,
                              data |-> data]
          IN  done(program_write(mapper, mark.program_ram, address, data))
    /\ steps' = steps + 1
    /\ UNCHANGED <<overflow_checks, ppu, cpu, ram, dma_status, cycle_count,
                   input_device_one>>

NextProgram == ProgramRead \/ ProgramWrite

SpecProgram == InitProgram /\ [][NextProgram]_vars

\* C18: whatever the mapper and its registers, program_read returns 0 for an
\* address of 0x0000..=0x5fff, and for an address of 0x6000..=0x7fff returns
\* program_ram[(address - 0x6000) mod len], or 0 when program_ram is empty,
\* and does not fail.
C18_ProgramReadBelowRom ==
    (last.op = "program_read" /\ last.address <= 32767)
       => /\ ~panic
          /\ last.value = IF last.address <= 24575 \/ mark.program_ram.len = 0
                          THEN 0
                          ELSE Index(mark.program_ram,
                                     (last.address - 24576)
                                     % mark.program_ram.len).value


(***************************************************************************)
(* SpecMmc1: Mapper001 as get_mapper builds it, in front of a program ROM  *)
(* of eight 16 KiB banks.  The CPU writes single bits, or a reset,         *)
(* to the four register addresses and reads the program ROM back;          *)
(* mark.bits are the bits written since the last reset or copy.            *)
(***************************************************************************)
MaxMmc1Steps == 11

InitMmc1 ==
    /\ ppu = NesPpu_new
    /\ mapper = Mapper001_new("Horizontal")
    /\ cpu = MOS6502_new
    /\ BusIdle
    /\ panic = FALSE
    /\ overflow_checks = TRUE
    /\ last = NoOp
    /\ mark = [program_rom |-> Memory(131072), program_ram |-> Memory(0),
               bits |-> <<>>]
    /\ steps = 0

Mmc1Write ==
    /\ steps < MaxMmc1Steps
    /\ ~panic
    /\ \E address \in {32768, 40960, 49152, 65535}, data \in {0, 1, 128} :
          LET done(r) ==
                  /\ mapper' = r.mapper
                  /\ panic' = r.panic
                  /\ last' = [op |-> "program_write", address |-> address,
                              data |-> data, before |-> mapper, bits |-> mark.bits]
                  /\ mark' = [mark EXCEPT
                                !.program_ram = r.program_ram,
                                !.bits = IF BitAnd(data, 128) > 0 \/ Len(@) = 4
                                         THEN <<>>
                                         ELSE Append(@, BitAnd(data, 1))]
          IN  done(program_write(mapper, mark.program_ram, address, data))
    /\ steps' = steps + 1
    /\ UNCHANGED <<overflow_checks, ppu, cpu, ram, dma_status, cycle_count,
                   input_device_one>>

Mmc1Read ==
    /\ steps < MaxMmc1Steps
    /\ ~panic
    /\ \E address \in {32768, 49151, 49152, 65535} :
          LET done(r) ==
                  /\ last' = [op |-> "program_read", address |-> address,
                              value |-> r.value]
                  /\ panic' = r.panic
          IN  done(program_read(mapper, mark.program_rom, mark.program_ram, address))
    /\ steps' = steps + 1
    /\ UNCHANGED <<overflow_checks, ppu, mapper, cpu, ram, dma_status, cycle_count,
                   input_device_one, mark>>

NextMmc1 == Mmc1Write \/ Mmc1Read

SpecMmc1 == InitMmc1 /\ [][NextMmc1]_vars

\* The four destination registers of the load shifter
Destinations(m) ==
    <<m.control_register, m.character_bank_0_register,
      m.character_bank_1_register, m.program_bank_register>>

\* The value five bits make, the first written in bit 0
Collected(bits) ==
    bits[1] + 2 * bits[2] + 4 * bits[3] + 8 * bits[4] + 16 * bits[5]

\* C19: a write to 0x8000..=0xffff with bit 7 set puts 0b10000 in the load
\* shifter; any other write shifts bit 0 of the data in from the top, and
\* the fifth of them since the last reset or copy stores the five bits, the
\* first written in bit 0, in the register bits 13-14 of the address select
\* (control, chr0, chr1, prg) and puts 0b10000 back in the shifter.  The
\* first four leave the destination registers alone.
C19_LoadShifter ==
    last.op = "program_write"
       => IF BitAnd(last.data, 128) > 0
          THEN /\ mapper.load_register = 16
               /\ Destinations(mapper) = Destinations(last.before)
          ELSE IF Len(last.bits) = 4
          THEN /\ mapper.load_register = 16
               /\ Destinations(mapper) =
                     [Destinations(last.before) EXCEPT
                        ![Shr(BitAnd(last.address, 24576), 13) + 1] =
                            Collected(Append(last.bits, BitAnd(last.data, 1)))]
          ELSE /\ Destinations(mapper) = Destinations(last.before)
               /\ mapper.load_register =
                     Shr(last.before.load_register, 1) + 16 * BitAnd(last.data, 1)

\* A fifth write has stored 0b10101 in the program bank register
C19_Witness ==
    /\ last.op = "program_write"
    /\ Len(last.bits) = 4
    /\ last.address = 65535
    /\ mapper.program_bank_register = 21
    /\ last.before.program_bank_register = 0
    /\ mapper.load_register = 16


\* The program ROM offset an address of 0x8000..=0xffff stands for: in PRG
\* modes 0 and 1 the 32 KiB bank the program bank register selects, its low
\* bit ignored; in mode 2 bank 0 below 0xc000 and the selected 16 KiB bank
\* from 0xc000; in mode 3 the selected 16 KiB bank below 0xc000 and the
\* last 16 KiB bank from 0xc000.
Mmc1Offset(m, len, address) ==
    IF Shr(BitAnd(m.control_register, 12), 2) \in {0, 1}
    THEN Shr(BitAnd(m.program_bank_register, 14), 1) * 32768 + (address % 32768)
    ELSE IF Shr(BitAnd(m.control_register, 12), 2) = 2
    THEN IF address < 49152 THEN address % 16384
         ELSE BitAnd(m.program_bank_register, 15) * 16384 + (address % 16384)
    ELSE IF address < 49152
         THEN BitAnd(m.program_bank_register, 15) * 16384 + (address % 16384)
         ELSE len - 16384 + (address % 16384)

\* C20: a program_read of 0x8000..=0xffff returns the byte of the program
\* ROM the PRG mode of control bits 2-3 and the program bank register
\* select, whenever that bank is in the ROM.
C20_ProgramBankModes ==
    (/\ last.op = "program_read"
     /\ last.address >= 32768
     /\ Mmc1Offset(mapper, mark.program_rom.len, last.address) < mark.program_rom.len)
       => /\ ~panic
          /\ last.value =
                ImageByte(Mmc1Offset(mapper, mark.program_rom.len, last.address))


(***************************************************************************)
(* SpecFrameCall: the host calls Nes::frame on a console from Nes::new,    *)
(* with rendering left off or switched on before the first call.  A call   *)
(* takes the frame counter, runs Nes::cycle while the counter has that     *)
(* value, and returns; the CPU makes no bus access meanwhile.  `steps`     *)
(* counts the calls and `last` holds the call in progress or the one that  *)
(* returned last.                                                          *)
(***************************************************************************)
MaxFrameCalls == 2

FrameCall ==
    /\ steps < MaxFrameCalls
    /\ ~panic
    /\ last.op # "frame_call"
    /\ last' = [op |-> "frame_call", current_frame |-> ppu.frame_count,
                at |-> cycle_count]
    /\ steps' = steps + 1
    /\ UNCHANGED <<overflow_checks, ppu, mapper, cpu, ram, dma_status, cycle_count,
                   input_device_one, panic, mark>>

FrameLoop ==
    /\ last.op = "frame_call"
    /\ ~panic
    /\ frame_running(Console, last.current_frame)
    /\ LET done(r) == Becomes(r.nes)
       IN  done(Nes_cycle(Console, Idle))
    /\ UNCHANGED <<overflow_checks, last, mark, steps>>

FrameReturn ==
    /\ last.op = "frame_call"
    /\ ~panic
    /\ ~frame_running(Console, last.current_frame)
    /\ last' = [op |-> "frame_return", current_frame |-> last.current_frame,
                length |-> cycle_count - last.at]
    /\ UNCHANGED <<overflow_checks, ppu, mapper, cpu, ram, dma_status, cycle_count,
                   input_device_one, panic, mark, steps>>

NextFrameCall == FramesEnableRendering \/ FrameCall \/ FrameLoop \/ FrameReturn

\* The thread that called frame() goes on running it: while the loop
\* condition holds another Nes::cycle is run, which is the only step that
\* can advance cycle_count during a call, and once it fails the call
\* returns.
FrameLoopRuns ==
    /\ last.op = "frame_call"
    /\ ~panic
    /\ frame_running(Console, last.current_frame)
    /\ cycle_count' = cycle_count + 1

SpecFrameCall ==
    /\ InitFrames
    /\ [][NextFrameCall]_vars
    /\ WF_cycle_count(FrameLoopRuns)
    /\ WF_vars(FrameReturn)

MaxStatusSteps == 2

InitStatus ==
    /\ \E status \in {0, VERTICAL_BLANK,
                      VERTICAL_BLANK + SPRITE_0_HIT + SPRITE_OVERFLOW},
          enabled \in {0, BACKGROUND_ENABLE, SPRITE_ENABLE,
                       BACKGROUND_ENABLE + SPRITE_ENABLE},
          left \in {0, BACKGROUND_LEFT_ENABLE, SPRITE_LEFT_ENABLE,
                    BACKGROUND_LEFT_ENABLE + SPRITE_LEFT_ENABLE},
          read_buffer \in {0, 191},
          pos \in {<<261, 0>>, <<261, 1>>, <<261, 30>>, <<100, 0>>, <<100, 1>>,
                   <<100, 8>>, <<100, 9>>, <<100, 64>>, <<100, 65>>, <<100, 256>>,
                   <<240, 30>>, <<245, 10>>} :
            ppu = [NesPpu_new EXCEPT
                     !.status_flags = status,
                     !.mask_flags = enabled + left,
                     !.read_buffer = read_buffer,
                     !.write_latch = TRUE,
                     !.object_attribute_memory = Store(@, 0, 32, OAM_FILL),
                     !.scanline = pos[1],
                     !.cycle = pos[2]]
    /\ mapper = Mapper004_new
    /\ cpu = MOS6502_new
    /\ BusIdle
    /\ panic = FALSE
    /\ overflow_checks = TRUE
    /\ last = NoOp
    /\ mark = NoOp
    /\ steps = 0

StatusRead ==
    /\ ~panic
    /\ steps < MaxStatusSteps
    /\ \E address \in {8194, 8196} :
         LET done(r) ==
             /\ ppu' = r.ppu
             /\ panic' = r.panic
             /\ last' = [op |-> "read", offset |-> address % 8, before |-> ppu,
                         value |-> r.value]
         IN  done(NesPpu_read(ppu, mapper, address))
    /\ steps' = steps + 1
    /\ UNCHANGED <<overflow_checks, mapper, cpu, ram, dma_status, cycle_count,
                   input_device_one, mark>>

StatusCycle ==
    /\ ~panic
    /\ steps < MaxStatusSteps
    /\ LET done(r) ==
             /\ ppu' = r.ppu
             /\ mapper' = r.mapper
             /\ cpu' = r.cpu
             /\ panic' = r.panic
       IN  done(NesPpu_cycle(ppu, mapper, cpu))
    /\ last' = [op |-> "cycle", before |-> ppu]
    /\ steps' = steps + 1
    /\ UNCHANGED <<overflow_checks, ram, dma_status, cycle_count, input_device_one,
                   mark>>

StatusReset ==
    /\ ~panic
    /\ steps < MaxStatusSteps
    /\ ppu' = NesPpu_reset(ppu)
    /\ last' = [op |-> "reset", before |-> ppu]
    /\ steps' = steps + 1
    /\ UNCHANGED <<overflow_checks, mapper, cpu, ram, dma_status, cycle_count,
                   input_device_one, panic, mark>>

StatusDrawPixel ==
    /\ ~panic
    /\ steps < MaxStatusSteps
    /\ ppu.scanline <= 239
    /\ ppu.cycle >= 1
    /\ ppu.cycle <= 256
    /\ \E pattern_shifter_lo \in {0, 32768},
          x_offset \in {1, 9}, shifter_hi \in {0, 128},
          attributes \in {0, SPRITE_ZERO + 1}, behind \in {-8, 1} :
         LET sprites ==
                 << [x_offset |-> x_offset, shifter_hi |-> shifter_hi,
                     shifter_lo |-> 0, attributes |-> attributes],
                    [x_offset |-> behind, shifter_hi |-> 128, shifter_lo |-> 128,
                     attributes |-> 2] >>
         IN  /\ ppu' = draw_pixel(ppu, 0, pattern_shifter_lo, sprites)
             /\ last' = [op |-> "draw_pixel", before |-> ppu,
                         pattern_shifter_lo |-> pattern_shifter_lo,
                         sprites |-> sprites]
    /\ steps' = steps + 1
    /\ UNCHANGED <<overflow_checks, mapper, cpu, ram, dma_status, cycle_count,
                   input_device_one, panic, mark>>

NextStatus == StatusRead \/ StatusCycle \/ StatusReset \/ StatusDrawPixel

SpecStatus == InitStatus /\ [][NextStatus]_vars

\* C22: a read of the OAM data register returns 0xff on dots 1..=64 of a
\* visible scanline and the byte at the OAM address on any other dot and
\* scanline: dot 0, dot 65, the post-render and pre-render scanlines and
\* vertical blank.
C22_OamReadOutsideVisibleDots ==
    (last.op = "read" /\ last.offset = 4)
       => last.value =
             IF last.before.scanline <= 239 /\ last.before.cycle >= 1
                /\ last.before.cycle <= 64
             THEN 255
             ELSE Load(last.before.object_attribute_memory,
                       last.before.oam_address, OAM_FILL)


\* The sprite in slot 0 is sprite zero and has an opaque pixel on the dot
\* being drawn: the dot is one of the eight the sprite covers and the bit of
\* its pattern for that dot is set in either plane.
SpriteZeroOpaque ==
    LET sprite == last.sprites[1]
        column == 1 - sprite.x_offset
    IN  /\ BitAnd(sprite.attributes, SPRITE_ZERO) > 0
        /\ column >= 0
        /\ column <= 7
        /\ BitAnd(BitOr(sprite.shifter_hi, sprite.shifter_lo), Pow2(7 - column)) > 0

\* The background pattern has an opaque pixel on the dot being drawn
BackgroundOpaque ==
    BitAnd(last.pattern_shifter_lo, Pow2(15 - last.before.fine_x_scroll)) > 0

\* C26: drawing a dot sets SPRITE_0_HIT exactly when the pixel of sprite
\* zero and the background pixel are both opaque, background and sprites
\* are both enabled, the dot is not 256 and, on dots 1 to 8, the left edge
\* is enabled for both; a flag already set stays set.
C26_SpriteZeroHit ==
    last.op = "draw_pixel"
       => (intersects(ppu.status_flags, SPRITE_0_HIT)
             <=> \/ intersects(last.before.status_flags, SPRITE_0_HIT)
                 \/ /\ SpriteZeroOpaque
                    /\ BackgroundOpaque
                    /\ BitAnd(last.before.mask_flags, BACKGROUND_ENABLE) > 0
                    /\ BitAnd(last.before.mask_flags, SPRITE_ENABLE) > 0
                    /\ last.before.cycle # 256
                    /\ last.before.cycle <= 8
                          => /\ BitAnd(last.before.mask_flags, BACKGROUND_LEFT_ENABLE) > 0
                             /\ BitAnd(last.before.mask_flags, SPRITE_LEFT_ENABLE) > 0)

\* Sprite zero has hit the background on dot 8, inside the left edge
C26_Witness ==
    /\ last.op = "draw_pixel"
    /\ last.before.cycle = 8
    /\ SpriteZeroOpaque
    /\ BackgroundOpaque
    /\ ~intersects(last.before.status_flags, SPRITE_0_HIT)
    /\ intersects(ppu.status_flags, SPRITE_0_HIT)


\* A sprite flag that was set before the last operation is clear after it
SpriteFlagCleared ==
    /\ last.op # "none"
    /\ \E flag \in {SPRITE_0_HIT, SPRITE_OVERFLOW} :
          /\ intersects(last.before.status_flags, flag)
          /\ ~intersects(ppu.status_flags, flag)

\* A status read returns the three flags in bits 5-7 over the low five bits
\* of the read buffer and changes nothing but VERTICAL_BLANK and the write
\* toggle, which it clears
StatusReadEffect ==
    (last.op = "read" /\ last.offset = 2)
       => /\ last.value = BitAnd(last.before.status_flags, 224)
                          + BitAnd(last.before.read_buffer, 31)
          /\ ppu = [last.before EXCEPT
                      !.status_flags = BitAnd(@, SPRITE_0_HIT + SPRITE_OVERFLOW),
                      !.write_latch = FALSE]

\* The PPU has cycled through dot 1 of the pre-render scanline and holds no
\* status flag
ClearedAtPreRender ==
    /\ last.op = "cycle"
    /\ last.before.scanline = MAX_SCANLINES
    /\ last.before.cycle = 1
    /\ ppu.status_flags = 0

\* C27 as stated: a status read returns the flags over the low bits of the
\* read buffer and clears only VERTICAL_BLANK and the write toggle, and
\* nothing clears SPRITE_0_HIT or SPRITE_OVERFLOW but dot 1 of scanline 261,
\* which clears VERTICAL_BLANK with them.
C27_SpriteFlagsClearedAtPreRenderOnly ==
    /\ StatusReadEffect
    /\ SpriteFlagCleared => ClearedAtPreRender

\* C27: a status read returns the flags over the low bits of the read
\* buffer and clears only VERTICAL_BLANK and the write toggle; SPRITE_0_HIT
\* and SPRITE_OVERFLOW are cleared by dot 1 of scanline 261, which clears
\* VERTICAL_BLANK with them, and by a reset, which keeps VERTICAL_BLANK.
C27_SpriteFlagsClearedAtPreRenderOrReset ==
    /\ StatusReadEffect
    /\ SpriteFlagCleared
          => \/ ClearedAtPreRender
             \/ /\ last.op = "reset"
                /\ ppu.status_flags = BitAnd(last.before.status_flags, VERTICAL_BLANK)

\* A status read has returned 0xff, all three flags over the read buffer's
\* low bits, and left the two sprite flags set
C27_Witness ==
    /\ last.op = "read"
    /\ last.offset = 2
    /\ last.value = 255
    /\ last.before.write_latch
    /\ ppu.status_flags = SPRITE_0_HIT + SPRITE_OVERFLOW
    /\ ~ppu.write_latch


(***************************************************************************)
(* SpecPorts: both controller ports, driven by the host through Nes and    *)
(* through the web wrapper, and latched by the CPU's writes of 0x4016.     *)
(* `mark` holds the second port, bus.input_device_two; `last` keeps the    *)
(* two ports as the operation found them.                                  *)
(***************************************************************************)
MaxPortsSteps == 4

Ports == [one |-> input_device_one, two |-> mark]

InitPorts ==
    /\ Holds(Nes_new)
    /\ overflow_checks = TRUE
    /\ last = NoOp
    /\ mark = Disconnected
    /\ steps = 0

PortsUpdateOne ==
    /\ steps < MaxPortsSteps
    /\ \E input_state \in {<<>>, <<1>>, <<165>>} :
         /\ input_device_one' = update_controller_one(input_device_one, input_state)
         /\ last' = [op |-> "update", via |-> "nes", port |-> 1,
                     input_state |-> input_state, before |-> Ports]
    /\ steps' = steps + 1
    /\ UNCHANGED <<overflow_checks, ppu, mapper, cpu, ram, dma_status, cycle_count,
                   panic, mark>>

PortsUpdateTwo ==
    /\ steps < MaxPortsSteps
    /\ \E input_state \in {<<>>, <<1>>, <<165>>} :
         /\ mark' = update_controller_two(mark, input_state)
         /\ last' = [op |-> "update", via |-> "nes", port |-> 2,
                     input_state |-> input_state, before |-> Ports]
    /\ steps' = steps + 1
    /\ UNCHANGED <<overflow_checks, ppu, mapper, cpu, ram, dma_status, cycle_count,
                   panic, input_device_one>>

PortsWebUpdateOne ==
    /\ steps < MaxPortsSteps
    /\ \E controller_state \in {1, 165} :
         LET done(r) ==
             /\ input_device_one' = r.one
             /\ mark' = r.two
             /\ last' = [op |-> "update", via |-> "web", port |-> 1,
                         input_state |-> <<controller_state>>, before |-> Ports]
         IN  done(WebNes_update_controller_one(Ports, controller_state))
    /\ steps' = steps + 1
    /\ UNCHANGED <<overflow_checks, ppu, mapper, cpu, ram, dma_status, cycle_count,
                   panic>>

PortsWebUpdateTwo ==
    /\ steps < MaxPortsSteps
    /\ \E controller_state \in {1, 165} :
         LET done(r) ==
             /\ input_device_one' = r.one
             /\ mark' = r.two
             /\ last' = [op |-> "update", via |-> "web", port |-> 2,
                         input_state |-> <<controller_state>>, before |-> Ports]
         IN  done(WebNes_update_controller_two(Ports, controller_state))
    /\ steps' = steps + 1
    /\ UNCHANGED <<overflow_checks, ppu, mapper, cpu, ram, dma_status, cycle_count,
                   panic>>

\* Bus::write of 0x4016, which latches both ports
PortsLatch ==
    /\ steps < MaxPortsSteps
    /\ \E data \in {0, 1} :
         /\ Becomes(Bus_write(Console, 16406, data))
         /\ mark' = NesInput_latch(mark, data)
         /\ last' = [op |-> "latch", data |-> data, before |-> Ports]
    /\ steps' = steps + 1
    /\ UNCHANGED overflow_checks

NextPorts ==
    PortsUpdateOne \/ PortsUpdateTwo \/ PortsWebUpdateOne \/ PortsWebUpdateTwo
       \/ PortsLatch

SpecPorts == InitPorts /\ [][NextPorts]_vars

\* what an update with input_state makes of a port
Updated(port, input_state) ==
    IF input_state = <<>> THEN [connected |-> FALSE]
    ELSE IF port.connected
    THEN [connected |-> TRUE, shift_register |-> port.shift_register,
          reload_latch |-> port.reload_latch, input_state |-> input_state[1]]
    ELSE [connected |-> TRUE, shift_register |-> 0, reload_latch |-> FALSE,
          input_state |-> input_state[1]]

\* C23: an update of a controller port, through Nes or through the web
\* wrapper, disconnects the port on None, connects it or replaces only its
\* input_state on Some(state), and leaves the other port as it was.
C23_UpdateAffectsOwnPort ==
    last.op = "update"
       => IF last.port = 1
          THEN /\ input_device_one = Updated(last.before.one, last.input_state)
               /\ mark = last.before.two
          ELSE /\ mark = Updated(last.before.two, last.input_state)
               /\ input_device_one = last.before.one


(***************************************************************************)
(* The cartridge loader: get_mapper and calculate_rom_size as              *)
(* Cartridge::load_from_reader calls them on the bytes of the header.      *)
(* A usize is kept as the record [mantissa, exponent] for mantissa *       *)
(* 2^exponent, of usize_bits bits: 32 on the web target, 64 on the         *)
(* desktop.                                                                *)
(***************************************************************************)
PROGRAM_ROM_BANK_SIZE == 16384
CHARACTER_ROM_BANK_SIZE == 8192

\* get_mapper with every mapper id accepted
get_mapper_any_id(mapper_id, submapper_id, mirroring) ==
    IF mapper_id = 1 THEN [ok |-> TRUE, mapper |-> Mapper001_new(mirroring)]
    ELSE IF mapper_id = 2 THEN [ok |-> TRUE, mapper |-> Mapper002_new(mirroring)]
    ELSE IF mapper_id = 3 THEN [ok |-> TRUE, mapper |-> Mapper003_new(mirroring)]
    ELSE IF mapper_id = 4 THEN [ok |-> TRUE, mapper |-> Mapper004_new]
    ELSE [ok |-> TRUE, mapper |-> Mapper000_new(mirroring)]

\* get_mapper; the mapper records of ids 0 to 3 carry the cartridge's
\* mirroring
get_mapper(mapper_id, submapper_id, mirroring) ==
    IF mapper_id = 0 THEN [ok |-> TRUE, mapper |-> Mapper000_new(mirroring)]
    ELSE IF mapper_id = 1 THEN [ok |-> TRUE, mapper |-> Mapper001_new(mirroring)]
    ELSE IF mapper_id = 2 THEN [ok |-> TRUE, mapper |-> Mapper002_new(mirroring)]
    ELSE IF mapper_id = 3 THEN [ok |-> TRUE, mapper |-> Mapper003_new(mirroring)]
    ELSE IF mapper_id = 4 THEN [ok |-> TRUE, mapper |-> Mapper004_new]
    ELSE [ok |-> FALSE, error |-> "Mapper ID unsupported!"]

\* usize::pow of 2, which panics on overflow in a build with overflow checks
\* and wraps without them
usize_pow2(exponent, usize_bits) ==
    IF exponent < usize_bits
    THEN [panic |-> FALSE, value |-> [mantissa |-> 1, exponent |-> exponent]]
    ELSE [panic |-> overflow_checks, value |-> [mantissa |-> 0, exponent |-> 0]]

\* usize::overflowing_mul by a factor of at most 7
overflowing_mul(a, factor, usize_bits) ==
    LET product == a.mantissa * factor
        room == usize_bits - a.exponent
        overflow == room < 3 /\ product >= Pow2(room)
    IN  [value |-> [mantissa |-> IF overflow THEN product % Pow2(room) ELSE product,
                    exponent |-> a.exponent],
         overflow |-> overflow]

\* calculate_rom_size
calculate_rom_size(least_significant_byte, most_significant_byte, bank_size, nes20, usize_bits) ==
    IF nes20 /\ most_significant_byte = 15
    THEN LET multiplied(power) ==
                 LET checked(r) ==
                         IF r.overflow
                         THEN [ok |-> FALSE, panic |-> FALSE,
                               error |-> "memory size exceeded"]
                         ELSE [ok |-> TRUE, panic |-> FALSE, size |-> r.value]
                 IN  IF power.panic THEN [ok |-> FALSE, panic |-> TRUE]
                     ELSE checked(overflowing_mul(
                              power.value,
                              BitAnd(least_significant_byte, 3) * 2 + 1, usize_bits))
         IN  multiplied(usize_pow2(Shr(least_significant_byte, 2), usize_bits))
    ELSE LET banks == IF nes20
                      THEN BitOr(least_significant_byte, most_significant_byte * 256)
                      ELSE least_significant_byte
         IN  [ok |-> TRUE, panic |-> FALSE,
              size |-> [mantissa |-> banks * bank_size, exponent |-> 0]]

\* Cartridge::load_from_reader, the size of the program ROM
program_rom_size(header, nes2, usize_bits) ==
    calculate_rom_size(header[4], BitAnd(header[9], 15), PROGRAM_ROM_BANK_SIZE, nes2,
                       usize_bits)

\* Cartridge::load_from_reader, the size of the character ROM
character_rom_size(header, nes2, usize_bits) ==
    calculate_rom_size(header[5], BitAnd(header[9], 240), CHARACTER_ROM_BANK_SIZE, nes2,
                       usize_bits)

(***************************************************************************)
(* SpecCartridge: the loader at work on one header.  `mark` holds the      *)
(* header's size bytes 4, 5 and 9, its format and the width of a usize.    *)
(***************************************************************************)
MaxCartridgeSteps == 2

InitCartridge ==
    /\ Holds(Nes_new)
    /\ overflow_checks \in BOOLEAN
    /\ last = NoOp
    /\ \E header4 \in {0, 1, 4, 65, 124, 125, 128, 160, 248, 251, 252, 253, 255},
          header5 \in {0, 65, 255},
          header9 \in {0, 1, 14, 15, 16, 240, 255},
          nes2 \in BOOLEAN, usize_bits \in {32, 64} :
          mark = [header |-> (4 :> header4) @@ (5 :> header5) @@ (9 :> header9),
                  nes2 |-> nes2, usize_bits |-> usize_bits]
    /\ steps = 0

CartridgeGetMapper ==
    /\ steps < MaxCartridgeSteps
    /\ ~panic
    /\ \E mapper_id \in {0, 1, 2, 3, 4, 5, 255, 4095},
          submapper_id \in {0}, mirroring \in {"Horizontal", "Vertical"} :
          LET done(r) ==
                  /\ mapper' = IF r.ok THEN r.mapper ELSE mapper
                  /\ last' = [op |-> "get_mapper", mapper_id |-> mapper_id,
                              mirroring |-> mirroring, result |-> r]
          IN  done(get_mapper(mapper_id, submapper_id, mirroring))
    /\ steps' = steps + 1
    /\ UNCHANGED <<overflow_checks, ppu, cpu, ram, dma_status, cycle_count,
                   input_device_one, panic, mark>>

CartridgeProgramRomSize ==
    /\ steps < MaxCartridgeSteps
    /\ ~panic
    /\ LET done(r) ==
               /\ panic' = r.panic
               /\ last' = [op |-> "program_rom_size", result |-> r]
       IN  done(program_rom_size(mark.header, mark.nes2, mark.usize_bits))
    /\ steps' = steps + 1
    /\ UNCHANGED <<overflow_checks, ppu, mapper, cpu, ram, dma_status, cycle_count,
                   input_device_one, mark>>

CartridgeCharacterRomSize ==
    /\ steps < MaxCartridgeSteps
    /\ ~panic
    /\ LET done(r) ==
               /\ panic' = r.panic
               /\ last' = [op |-> "character_rom_size", result |-> r]
       IN  done(character_rom_size(mark.header, mark.nes2, mark.usize_bits))
    /\ steps' = steps + 1
    /\ UNCHANGED <<overflow_checks, ppu, mapper, cpu, ram, dma_status, cycle_count,
                   input_device_one, mark>>

NextCartridge ==
    CartridgeGetMapper \/ CartridgeProgramRomSize \/ CartridgeCharacterRomSize

SpecCartridge == InitCartridge /\ [][NextCartridge]_vars

\* C24: get_mapper returns a mapper for the ids 0 to 4, the one of that id,
\* and for every greater id an error and no mapper; it never panics.
C24_MapperIdsUpToFour ==
    last.op = "get_mapper"
       => /\ ~panic
          /\ IF last.mapper_id <= 4
             THEN /\ last.result.ok
                  /\ last.result.mapper.id = last.mapper_id
                  /\ mapper = last.result.mapper
             ELSE /\ ~last.result.ok
                  /\ DOMAIN last.result = {"ok", "error"}

\* get_mapper has refused the mapper id 5 with an error
C24_Witness ==
    /\ last.op = "get_mapper"
    /\ last.mapper_id = 5
    /\ ~last.result.ok
    /\ last.result.error = "Mapper ID unsupported!"
    /\ ~panic

\* the number of bits of an odd factor of at most 7
BitLength(mantissa) == IF mantissa = 1 THEN 1 ELSE IF mantissa = 3 THEN 2 ELSE 3

\* the size the header's bytes stand for, with the most significant nibble
\* msb_nibble of byte 9
StatedSize(lsb, msb_nibble, bank_size) ==
    IF mark.nes2 /\ msb_nibble = 15
    THEN IF Shr(lsb, 2) + BitLength(BitAnd(lsb, 3) * 2 + 1) > mark.usize_bits
         THEN [ok |-> FALSE, panic |-> FALSE, error |-> "memory size exceeded"]
         ELSE [ok |-> TRUE, panic |-> FALSE,
               size |-> [mantissa |-> BitAnd(lsb, 3) * 2 + 1, exponent |-> Shr(lsb, 2)]]
    ELSE IF mark.nes2
    THEN [ok |-> TRUE, panic |-> FALSE,
          size |-> [mantissa |-> (msb_nibble * 256 + lsb) * bank_size, exponent |-> 0]]
    ELSE [ok |-> TRUE, panic |-> FALSE,
          size |-> [mantissa |-> lsb * bank_size, exponent |-> 0]]

\* C25: the size of a ROM is, in NES 2.0 with the most significant nibble
\* 0xF, 2^(lsb >> 2) * ((lsb & 3) * 2 + 1), or an error when that product
\* overflows a usize; in NES 2.0 with another nibble (msb << 8 | lsb) *
\* bank_size; in iNES lsb * bank_size.
C25_RomSize ==
    /\ last.op = "program_rom_size"
          => last.result = StatedSize(mark.header[4], BitAnd(mark.header[9], 15),
                                      PROGRAM_ROM_BANK_SIZE)
    /\ last.op = "character_rom_size"
          => last.result = StatedSize(mark.header[5], Shr(mark.header[9], 4),
                                      CHARACTER_ROM_BANK_SIZE)


(***************************************************************************)
(* SpecPort: one controller port under NesInput's own operations, with the *)
(* data of a latch write and the open bus value of a poll drawn from       *)
(* bytes with other bits than bit 0 set.  `last` keeps the port as the     *)
(* operation found it.                                                     *)
(***************************************************************************)
MaxPortSteps == 6

PortUpdate ==
    /\ steps < MaxPortSteps
    /\ \E input_state \in {<<>>, <<1>>, <<164>>} :
         /\ input_device_one' = update_controller_one(input_device_one, input_state)
         /\ last' = [op |-> "update", before |-> input_device_one]
    /\ steps' = steps + 1
    /\ UNCHANGED <<overflow_checks, ppu, mapper, cpu, ram, dma_status, cycle_count,
                   panic, mark>>

PortLatch ==
    /\ steps < MaxPortSteps
    /\ \E data \in {0, 1, 2, 255} :
         /\ input_device_one' = NesInput_latch(input_device_one, data)
         /\ last' = [op |-> "latch", data |-> data, before |-> input_device_one]
    /\ steps' = steps + 1
    /\ UNCHANGED <<overflow_checks, ppu, mapper, cpu, ram, dma_status, cycle_count,
                   panic, mark>>

PortPoll ==
    /\ steps < MaxPortSteps
    /\ \E bus \in {0, 95, 255} :
         LET done(r) ==
             /\ input_device_one' = r.device
             /\ last' = [op |-> "poll", bus |-> bus, value |-> r.value,
                         before |-> input_device_one]
         IN  done(NesInput_poll(input_device_one, bus))
    /\ steps' = steps + 1
    /\ UNCHANGED <<overflow_checks, ppu, mapper, cpu, ram, dma_status, cycle_count,
                   panic, mark>>

NextPort == PortUpdate \/ PortLatch \/ PortPoll

SpecPort == InitInput /\ [][NextPort]_vars

\* the shift register a poll of the connected port reads: the input state
\* while the reload is armed
Polled(port) ==
    IF port.reload_latch THEN port.input_state ELSE port.shift_register

\* C28: on a connected port a latch write arms the reload with bit 0 set and
\* disarms it with bit 0 clear; a poll, after re-copying input_state into
\* the shift register while armed, returns (shift & 1) | (bus & 0xf8) and
\* shifts the register right with bit 7 set.  A disconnected port returns
\* bus & 0xf4 and ignores latch writes.
C28_LatchAndPoll ==
    /\ (last.op = "latch" /\ last.before.connected)
          => /\ input_device_one.connected
             /\ input_device_one.reload_latch = (last.data % 2 = 1)
             /\ input_device_one.input_state = last.before.input_state
             /\ last.data % 2 = 0
                   => input_device_one.shift_register = last.before.shift_register
    /\ (last.op = "poll" /\ last.before.connected)
          => /\ last.value = (Polled(last.before) % 2) + BitAnd(last.bus, 248)
             /\ input_device_one =
                   [last.before EXCEPT
                       !.shift_register = Shr(Polled(last.before), 1) + 128]
    /\ (last.op = "poll" /\ ~last.before.connected)
          => /\ last.value = BitAnd(last.bus, 244)
             /\ input_device_one = last.before
    /\ (last.op = "latch" /\ ~last.before.connected)
          => input_device_one = last.before

\* An armed port whose shift register had been shifted was polled with 0xff
\* on the bus: it returned bit 0 of the input state under the bus's upper
\* five bits and reloaded before shifting
C28_Witness ==
    /\ last.op = "poll"
    /\ last.bus = 255
    /\ last.before.connected
    /\ last.before.reload_latch
    /\ last.before.input_state = 164
    /\ last.before.shift_register = 128
    /\ last.value = 248
    /\ input_device_one.shift_register = 210


(***************************************************************************)
(* SpecDmaJob: OAM DMA jobs from a page of work RAM and from the page of   *)
(* the PPU's registers, started by the CPU in the first MaxDmaJobStart     *)
(* cycles and run by the host's calls of Nes::cycle.  `last` keeps the DMA *)
(* status and the OAM a call found; `mark` follows the job: the kind of    *)
(* its last step and the number of OAM writes made.                        *)
(***************************************************************************)
MaxDmaJobStart == 12
MaxDmaJobTicks == 1560

\* what a DMA slot did, seen from the DMA status before and after it
DmaStepKind(before, after) ==
    IF before.dma_wait
    THEN IF after.active /\ after.dma_wait THEN "wait" ELSE "clear"
    ELSE IF ~after.active \/ after.dma_count # before.dma_count THEN "write"
    ELSE "read"

DmaJobCycle ==
    /\ ~panic
    /\ cycle_count < MaxDmaJobTicks
    /\ \E access \in {Idle, BusWrite(8195, 254), BusWrite(16404, 2), BusWrite(16404, 32)} :
         LET done(r) ==
                 /\ access # Idle => (cycle_count % 3 = 0 /\ cycle_count < MaxDmaJobStart)
                 /\ Becomes(r.nes)
                 /\ last' = [op |-> "cycle", count |-> cycle_count, dma |-> dma_status,
                             oam |-> ppu.object_attribute_memory,
                             oam_address |-> ppu.oam_address,
                             eos_count |-> 0, irq_count |-> 0]
                 /\ mark' = IF r.nes.panic THEN mark
                            ELSE IF ~dma_status.active /\ r.nes.dma_status.active
                            THEN [op |-> "dma",
                                  page |-> r.nes.dma_status.dma_start_address \div 256,
                                  kind |-> "start", writes |-> 0]
                            ELSE IF dma_status.active /\ cycle_count % 3 = 0
                            THEN [op |-> "dma", page |-> mark.page,
                                  kind |-> DmaStepKind(dma_status, r.nes.dma_status),
                                  writes |-> mark.writes
                                             + IF DmaStepKind(dma_status, r.nes.dma_status)
                                                    = "write"
                                               THEN 1 ELSE 0]
                            ELSE mark
         IN  done(Nes_cycle(Console, access))
    /\ UNCHANGED <<overflow_checks, steps>>

NextDmaJob == DmaJobCycle

\* the host calls Nes::cycle again: Nes::frame loops on it
DmaJobRuns ==
    /\ ~panic
    /\ cycle_count < MaxDmaJobTicks
    /\ cycle_count' = cycle_count + 1

SpecDmaJob == InitDma /\ [][NextDmaJob]_vars /\ WF_cycle_count(DmaJobRuns)

\* the last call of Nes::cycle gave its CPU slot to a DMA job
DmaSlot == last.op = "cycle" /\ ~panic /\ last.dma.active /\ last.count % 3 = 0

\* Every step of a DMA job is in order: a waiting job waits for a slot on an
\* odd master cycle, which clears the wait and nothing else; a read, on an
\* even master cycle, follows the clearing or a write and leaves count and
\* OAM alone; a write, on an odd master cycle, follows a read, stores the
\* buffer at OAM address + count, and either advances count or, at count
\* 255, discards the job.
DmaStepsInOrder ==
    DmaSlot =>
       /\ mark.kind = "wait"
             => /\ last.count % 2 = 0
                /\ dma_status = last.dma
                /\ ppu.object_attribute_memory = last.oam
       /\ mark.kind = "clear"
             => /\ last.count % 2 = 1
                /\ dma_status = [last.dma EXCEPT !.dma_wait = FALSE]
                /\ dma_status.dma_count = 0
                /\ ppu.object_attribute_memory = last.oam
       /\ mark.kind = "read"
             => /\ last.count % 2 = 0
                /\ dma_status.active
                /\ dma_status.dma_count = last.dma.dma_count
                /\ ppu.object_attribute_memory = last.oam
       /\ mark.kind = "write"
             => /\ last.count % 2 = 1
                /\ mark.writes = last.dma.dma_count + 1
                /\ ppu.object_attribute_memory =
                      Store(last.oam, (last.oam_address + last.dma.dma_count) % 256,
                            last.dma.dma_buffer, OAM_FILL)
                /\ IF last.dma.dma_count = 255
                   THEN ~dma_status.active
                   ELSE dma_status = [last.dma EXCEPT !.dma_count = @ + 1]

\* reads and writes alternate, and the first step after the wait is a read
DmaStepsAlternate ==
    [][ (mark.op = "dma" /\ mark'.op = "dma" /\ mark' # mark /\ mark'.kind # "start")
           => \/ mark'.kind \in {"wait", "clear"} /\ mark.kind \in {"start", "wait"}
              \/ mark'.kind = "read" /\ mark.kind \in {"clear", "write"}
              \/ mark'.kind = "write" /\ mark.kind = "read" ]_vars

\* C29: a DMA job always completes: its wait is cleared on the next DMA slot
\* with an odd master cycle, reads on even and writes on odd master cycles
\* then alternate, starting with a read, and after exactly 256 OAM writes,
\* with count 0 to 255, the job is discarded.
C29_DmaJobCompletes ==
    /\ []DmaStepsInOrder
    /\ DmaStepsAlternate
    /\ [](~dma_status.active /\ mark.op = "dma" /\ ~panic => mark.writes = 256)
    /\ dma_status.active ~> (~dma_status.active /\ mark.op = "dma" /\ mark.writes = 256)

\* the same for the jobs that read page 2 of work RAM
WorkRamDmaJobCompletes ==
    /\ []DmaStepsInOrder
    /\ DmaStepsAlternate
    /\ [](~dma_status.active /\ mark.op = "dma" /\ ~panic => mark.writes = 256)
    /\ (dma_status.active /\ mark.op = "dma" /\ mark.page = 2)
          ~> (~dma_status.active /\ mark.op = "dma" /\ mark.writes = 256)


\* what the write of data to an interrupt register of the MMC3 is to make
\* of the mapper m
IrqRegisterWritten(m, address, data) ==
    IF address = 49152 THEN [m EXCEPT !.scanline_counter_reload = data]
    ELSE IF address = 49153 THEN [m EXCEPT !.scanline_counter_reload_flag = TRUE]
    ELSE IF address = 57344 THEN [m EXCEPT !.interrupt_request_enabled = FALSE,
                                           !.pending_interrupt_request = FALSE]
    ELSE [m EXCEPT !.interrupt_request_enabled = TRUE]

\* an end_of_scanline call reloads the counter when the reload is armed,
\* clears the flag, and sets no interrupt pending while the IRQ is disabled
EndOfScanlineStep ==
    last'.op = "end_of_scanline"
       => /\ ~mapper'.scanline_counter_reload_flag
          /\ mapper.scanline_counter_reload_flag
                => mapper'.scanline_counter = mapper.scanline_counter_reload
          /\ ~mapper.interrupt_request_enabled
                => /\ ~mapper'.interrupt_request_enabled
                   /\ mapper'.pending_interrupt_request
                         = mapper.pending_interrupt_request

\* C30: a write to 0xC000 only sets the reload value; a write to 0xC001 only
\* arms the reload flag, the counter being reloaded by the next
\* end_of_scanline, which clears the flag; a write to 0xE000 disables the
\* IRQ and clears a pending one, and end_of_scanline sets none pending while
\* the IRQ stays disabled; a write to 0xE001 enables the IRQ and sets none
\* pending.
C30_IrqRegisterWrites ==
    [][ /\ last'.op = "program_write"
              => mapper' = IrqRegisterWritten(mapper, last'.address, last'.data)
        /\ EndOfScanlineStep ]_vars

\* the same without the writes to 0xC001
IrqRegisterWritesButArm ==
    [][ /\ (last'.op = "program_write" /\ last'.address # 49153)
              => mapper' = IrqRegisterWritten(mapper, last'.address, last'.data)
        /\ EndOfScanlineStep ]_vars


\* the fields of a VRAM address v: fine y, bit 11, bit 10, coarse y, coarse x
Fields(v) ==
    [fine_y |-> (v \div 4096) % 8, bit11 |-> (v \div 2048) % 2,
     bit10 |-> (v \div 1024) % 2, coarse_y |-> (v \div 32) % 32, coarse_x |-> v % 32]

\* C31: with rendering enabled y_increment adds one to a fine y below 7 and
\* changes nothing else; at fine y 7 it clears fine y and advances coarse y:
\* 29 becomes 0 with bit 11 flipped, 31 becomes 0 with bit 11 kept, any
\* other coarse y grows by one; coarse x and bit 10 never change.  With
\* rendering disabled v is unchanged.
C31_YIncrement ==
    last.op = "y_increment"
       => LET before == Fields(last.before)
              after == Fields(ppu.current_vram_address)
          IN  IF ~rendering_enabled(ppu)
              THEN ppu.current_vram_address = last.before
              ELSE /\ ppu.current_vram_address < 32768
                   /\ after.coarse_x = before.coarse_x
                   /\ after.bit10 = before.bit10
                   /\ IF before.fine_y < 7
                      THEN /\ after.fine_y = before.fine_y + 1
                           /\ after.coarse_y = before.coarse_y
                           /\ after.bit11 = before.bit11
                      ELSE /\ after.fine_y = 0
                           /\ after.coarse_y = IF before.coarse_y \in {29, 31} THEN 0
                                               ELSE before.coarse_y + 1
                           /\ after.bit11 = IF before.coarse_y = 29
                                            THEN 1 - before.bit11
                                            ELSE before.bit11

\* y_increment has wrapped coarse y 31 to 0 at fine y 7 with rendering
\* enabled and has left the name table bits as they were
C31_Witness ==
    /\ last.op = "y_increment"
    /\ rendering_enabled(ppu)
    /\ Fields(last.before).fine_y = 7
    /\ Fields(last.before).coarse_y = 31
    /\ Fields(last.before).bit11 = 1
    /\ ppu.current_vram_address = last.before - 7 * 4096 - 31 * 32

(***************************************************************************)
(* Sprite evaluation.  The evaluation state (secondary OAM and the three   *)
(* evaluation fields of NesPpu) is kept beside the PPU record, in mark.    *)
(***************************************************************************)
\* the evaluation fields of NesPpu::new
SpriteEvaluation_new ==
    [op |-> "sprites", secondary_object_attribute_memory |-> [i \in 0..31 |-> 0],
     secondary_sprite_evaluation_index |-> 0, sprite_evaluation_index |-> 0,
     sprite_evaluation_wrapped |-> FALSE, resets |-> 0]

\* self.scanline >= sprite_y && self.scanline - sprite_y < sprite_height
sprite_on_scanline(p, index) ==
    LET sprite_y == Load(p.object_attribute_memory, index, OAM_FILL)
        sprite_height == IF intersects(p.ctrl_flags, SPRITE_HEIGHT) THEN 16 ELSE 8
    IN  p.scanline >= sprite_y /\ p.scanline - sprite_y < sprite_height

\* the four bytes copied into secondary OAM, with the sprite zero marker
copied_sprite_byte(p, index, k) ==
    LET byte == Load(p.object_attribute_memory, index + k, OAM_FILL) IN
    IF k # 2 THEN byte
    ELSE IF index = 0 THEN BitOr(byte, SPRITE_ZERO)
    ELSE BitAnd(byte, 255 - SPRITE_ZERO)

\* the even cycles of 65..=256 of perform_sprite_evaluation
evaluate_sprite(p, e) ==
    LET at == e.sprite_evaluation_index
        to == e.secondary_sprite_evaluation_index
        found == sprite_on_scanline(p, at)
        copying == ~e.sprite_evaluation_wrapped /\ to < 32
        checking == ~e.sprite_evaluation_wrapped /\ to >= 32
                    /\ ~intersects(p.status_flags, SPRITE_OVERFLOW)
        next == IF checking THEN at + 1 ELSE at
    IN  [ppu |-> IF checking /\ found
                 THEN [p EXCEPT !.status_flags = BitOr(@, SPRITE_OVERFLOW)]
                 ELSE p,
         eval |-> [e EXCEPT
            !.secondary_object_attribute_memory =
                IF copying /\ found
                THEN [i \in 0..31 |-> IF i >= to /\ i < to + 4
                                      THEN copied_sprite_byte(p, at, i - to)
                                      ELSE @[i]]
                ELSE @,
            !.secondary_sprite_evaluation_index = IF copying /\ found THEN to + 4 ELSE to,
            !.sprite_evaluation_index = ((next % 256) + 4) % 256,
            !.sprite_evaluation_wrapped = @ \/ next > 255 \/ (next % 256) + 4 > 255]]

\* NesPpu::perform_sprite_evaluation
perform_sprite_evaluation(p, e) ==
    IF p.cycle >= 1 /\ p.cycle <= 64
    THEN IF p.cycle = 1
         THEN [ppu |-> p, eval |-> [e EXCEPT !.secondary_sprite_evaluation_index = 0]]
         ELSE IF p.cycle % 2 = 0
         THEN [ppu |-> p,
               eval |-> [e EXCEPT
                  !.secondary_object_attribute_memory[e.secondary_sprite_evaluation_index] =
                      oam_read(p),
                  !.secondary_sprite_evaluation_index = @ + 1]]
         ELSE [ppu |-> p, eval |-> e]
    ELSE IF p.cycle >= 65 /\ p.cycle <= 256 /\ p.cycle % 2 = 0
    THEN evaluate_sprite(p, IF p.cycle = 66
                            THEN [e EXCEPT !.sprite_evaluation_index = 0,
                                           !.secondary_sprite_evaluation_index = 0,
                                           !.sprite_evaluation_wrapped = FALSE]
                            ELSE e)
    ELSE [ppu |-> p, eval |-> e]

\* the secondary OAM index while the sprite shifters are loaded, cycles 257..=320
load_foregroud_shifters_index(p, e) ==
    IF p.cycle >= 257 /\ p.cycle <= 320 /\ p.cycle % 8 = 1
    THEN [e EXCEPT !.secondary_sprite_evaluation_index =
                       (IF p.cycle = 257 THEN 0 ELSE @) + 4]
    ELSE e

\* NesPpu::cycle with the sprite evaluation of the rendering scanlines
NesPpu_cycle_sprites(p, e, m, c) ==
    LET rendering_line == p.scanline = MAX_SCANLINES \/ p.scanline <= 239
        evaluating == rendering_line /\ ((p.cycle >= 1 /\ p.cycle <= 256)
                                         \/ (p.cycle >= 321 /\ p.cycle <= 336))
        rest(ev) == [cycled |-> NesPpu_cycle(ev.ppu, m, c),
                     eval |-> IF rendering_line
                              THEN load_foregroud_shifters_index(p, ev.eval)
                              ELSE ev.eval]
    IN  rest(IF evaluating THEN perform_sprite_evaluation(p, e)
             ELSE [ppu |-> p, eval |-> e])

(***************************************************************************)
(* Sprite evaluation over one scanline: the PPU is clocked from dot 0 of a *)
(* scanline to the dot after the evaluation; a reset may come in the first *)
(* dots of the scanline.                                                   *)
(***************************************************************************)
MaxSpriteDot == 258
MaxResetDot == 2
MaxSpriteResets == 1

\* OAM holding the sprites of a set at one y; tile, attribute and x tell them apart
SpriteLayout(sprites, y) ==
    [i \in UNION {{4 * k, 4 * k + 1, 4 * k + 2, 4 * k + 3} : k \in sprites} |->
        IF i % 4 = 0 THEN y
        ELSE IF i % 4 = 1 THEN i \div 4
        ELSE IF i % 4 = 2 THEN 63
        ELSE (i \div 4) + 1]

SpriteSets == {{}, {0}, {1, 2}, 0..8, 3..12, 0..63}

InitSprites ==
    /\ \E pos \in {<<241, 0>>, <<261, 0>>, <<0, 0>>, <<100, 0>>, <<239, 0>>},
          sprites \in SpriteSets,
          above \in {0, 7, 8},
          height \in {0, SPRITE_HEIGHT},
          overflow \in {0, SPRITE_OVERFLOW},
          oam_address \in {0, 2} :
         LET line == IF pos[1] > 239 THEN 0 ELSE pos[1]
             y == IF line >= above THEN line - above ELSE line + 1
         IN  ppu = [NesPpu_new EXCEPT
                      !.status_flags = overflow + (IF pos[1] = 261 THEN VERTICAL_BLANK ELSE 0),
                      !.ctrl_flags = height,
                      !.oam_address = oam_address,
                      !.object_attribute_memory = SpriteLayout(sprites, y),
                      !.scanline = pos[1],
                      !.cycle = pos[2]]
    /\ mapper = Mapper004_new
    /\ cpu = MOS6502_new
    /\ BusIdle
    /\ panic = FALSE
    /\ overflow_checks = TRUE
    /\ last = NoOp
    /\ mark = SpriteEvaluation_new
    /\ steps = 0

SpritesCycle ==
    /\ ~panic
    /\ ppu.cycle < MaxSpriteDot
    /\ ppu.scanline \in 240..260 => ppu.cycle <= MaxResetDot
    /\ LET done(r) ==
           /\ ppu' = r.cycled.ppu
           /\ mapper' = r.cycled.mapper
           /\ cpu' = r.cycled.cpu
           /\ panic' = r.cycled.panic
           /\ mark' = r.eval
       IN  done(NesPpu_cycle_sprites(ppu, mark, mapper, cpu))
    /\ last' = [op |-> "cycle", before |-> ppu]
    /\ UNCHANGED <<overflow_checks, ram, dma_status, cycle_count, input_device_one, steps>>

SpritesReset ==
    /\ ~panic
    /\ mark.resets < MaxSpriteResets
    /\ ppu.cycle <= MaxResetDot
    /\ ppu' = NesPpu_reset(ppu)
    /\ mark' = [mark EXCEPT !.resets = @ + 1]
    /\ last' = [op |-> "reset", before |-> ppu]
    /\ UNCHANGED <<overflow_checks, mapper, cpu, ram, dma_status, cycle_count,
                   input_device_one, panic, steps>>

NextSprites == SpritesCycle \/ SpritesReset

SpecSprites == InitSprites /\ [][NextSprites]_vars

\* the sprite numbers on the PPU's scanline, and how many of them come before one
SpritesOnScanline(p) == {k \in 0..63 : sprite_on_scanline(p, 4 * k)}
Rank(p, k) == Cardinality({j \in SpritesOnScanline(p) : j < k})
\* secondary OAM holding the first eight sprites on the scanline, in OAM order
FirstEightCopied(p, e) ==
    \A k \in SpritesOnScanline(p) :
        Rank(p, k) < 8 =>
            \A b \in 0..3 :
                e.secondary_object_attribute_memory[4 * Rank(p, k) + b] =
                    copied_sprite_byte(p, 4 * k, b)
UnusedSlotsCleared(p, e) ==
    \A i \in 0..31 :
        i >= 4 * Cardinality(SpritesOnScanline(p)) =>
            e.secondary_object_attribute_memory[i] = 255
EvaluationLine(p) == p.scanline = MAX_SCANLINES \/ p.scanline <= 239
\* a dot of the evaluation raised SPRITE_OVERFLOW
OverflowRaised ==
    /\ last.op = "cycle"
    /\ ~intersects(last.before.status_flags, SPRITE_OVERFLOW)
    /\ intersects(ppu.status_flags, SPRITE_OVERFLOW)

\* C32: on every scanline with sprite evaluation, after dots 1..=64 all 32
\* bytes of secondary OAM are 0xFF whatever primary OAM and the status flags
\* hold; after dots 65..=256 the first eight sprites on the scanline are in
\* secondary OAM in OAM order; SPRITE_OVERFLOW is raised only with eight found
C32_SpriteEvaluation ==
    /\ (EvaluationLine(ppu) /\ ppu.cycle = 65) =>
           \A i \in 0..31 : mark.secondary_object_attribute_memory[i] = 255
    /\ (EvaluationLine(ppu) /\ ppu.cycle = 257) => FirstEightCopied(ppu, mark)
    /\ OverflowRaised => mark.secondary_sprite_evaluation_index = 32

\* the same with the clear stated only for scanlines that start outside of
\* vertical blank
SpriteEvaluationOutsideVblank ==
    /\ (EvaluationLine(ppu) /\ ppu.cycle = 65
        /\ ~intersects(ppu.status_flags, VERTICAL_BLANK)) =>
           \A i \in 0..31 : mark.secondary_object_attribute_memory[i] = 255
    /\ (EvaluationLine(ppu) /\ ppu.cycle = 257) => FirstEightCopied(ppu, mark)
    /\ (EvaluationLine(ppu) /\ ppu.cycle = 257
        /\ ~intersects(ppu.status_flags, VERTICAL_BLANK)) => UnusedSlotsCleared(ppu, mark)
    /\ OverflowRaised => mark.secondary_sprite_evaluation_index = 32

(***************************************************************************)
(* The screen buffer.  The model keeps the entry a dot writes, not the     *)
(* 61440 entries: draw_pixel is the only writer.                           *)
(***************************************************************************)
NES_SCREEN_DIMENSIONS == 61440
NES_COLOUR_MAP_LEN == 64

NoScreenWrite == [written |-> FALSE]

\* NesPpu::draw_pixel, the assignment to screen_buffer: the index written
\* and the index into NES_COLOUR_MAP, either of which may be out of bounds
draw_pixel_screen(p, c, pixel, palette) ==
    LET index == (p.cycle - 1) + (p.scanline * 256)
        colour == vram_read(p, c, BitOr(16128, BitOr(Shl16(palette, 2), pixel)))
    IN  IF colour.panic \/ colour.value >= NES_COLOUR_MAP_LEN \/ index >= NES_SCREEN_DIMENSIONS
        THEN [written |-> FALSE, panic |-> TRUE]
        ELSE [written |-> TRUE, index |-> index, colour |-> colour.value, panic |-> FALSE]

\* NesPpu::cycle, `if self.cycle <= 256 && self.scanline != MAX_SCANLINES`
\* inside the arm of cycles 1..=256 | 321..=336 of the rendering scanlines.
\* The pattern tables are blank, so the pixel drawn is pixel 0 of palette 0.
cycle_screen(p, c) ==
    IF (p.scanline = MAX_SCANLINES \/ p.scanline <= 239)
       /\ ((p.cycle >= 1 /\ p.cycle <= 256) \/ (p.cycle >= 321 /\ p.cycle <= 336))
       /\ p.cycle <= 256 /\ p.scanline # MAX_SCANLINES
    THEN draw_pixel_screen(p, c, 0, 0)
    ELSE [written |-> FALSE, panic |-> FALSE]

(***************************************************************************)
(* SpecDots: a PPU from NesPpu::new, set up by a script of register        *)
(* writes, then clocked dot by dot through its first frames; a reset may   *)
(* come at one of a few ticks.  `mark` keeps the script, the screen write  *)
(* of the last dot and whether the dot reached a panic arm of the match.   *)
(***************************************************************************)
MaxDotsTicks == 90100
MaxDotsResets == 1
\* in frame 1 after 4 dots, and on dot 336 of the pre-render scanline of frame 1
DotsResetTicks == {345, 89678}

DotsScripts ==
    { << >>,
      << <<8193, 24>>, <<8192, 3>>, <<8197, 255>>, <<8197, 255>> >>,
      << <<8193, 8>> >>,
      << <<8192, 3>>, <<8197, 255>>, <<8197, 255>> >>,
      << <<8198, 63>>, <<8198, 0>>, <<8199, 64>> >>,
      << <<8198, 63>>, <<8198, 0>>, <<8199, 63>> >> }

InitDots ==
    /\ ppu = NesPpu_new
    /\ mapper = Mapper004_new
    /\ cpu = MOS6502_new
    /\ BusIdle
    /\ panic = FALSE
    /\ overflow_checks = TRUE
    /\ last = NoOp
    /\ \E script \in DotsScripts :
         mark = [op |-> "dots", script |-> script, resets |-> 0,
                 screen |-> NoScreenWrite, invalid |-> FALSE]
    /\ steps = 0

DotsWrite ==
    /\ ~panic
    /\ mark.script # << >>
    /\ LET done(r) ==
           /\ ppu' = r.ppu
           /\ panic' = r.panic
       IN  done(NesPpu_write(ppu, mapper, Head(mark.script)[1], Head(mark.script)[2]))
    /\ mark' = [mark EXCEPT !.script = Tail(@), !.screen = NoScreenWrite]
    /\ last' = [op |-> "write", scanline |-> ppu.scanline, cycle |-> ppu.cycle,
                frame_count |-> ppu.frame_count]
    /\ UNCHANGED <<overflow_checks, mapper, cpu, ram, dma_status, cycle_count,
                   input_device_one, steps>>

DotsCycle ==
    /\ ~panic
    /\ mark.script = << >>
    /\ steps < MaxDotsTicks
    /\ LET done(r, screen) ==
           /\ ppu' = r.ppu
           /\ mapper' = r.mapper
           /\ cpu' = r.cpu
           /\ panic' = (r.panic \/ screen.panic)
           /\ mark' = [mark EXCEPT
                         !.screen = IF screen.written
                                    THEN [written |-> TRUE, index |-> screen.index]
                                    ELSE NoScreenWrite,
                         !.invalid = r.panic]
       IN  done(NesPpu_cycle(ppu, mapper, cpu), cycle_screen(ppu, mapper))
    /\ last' = [op |-> "cycle", scanline |-> ppu.scanline, cycle |-> ppu.cycle,
                frame_count |-> ppu.frame_count]
    /\ steps' = steps + 1
    /\ UNCHANGED <<overflow_checks, ram, dma_status, cycle_count, input_device_one>>

DotsReset ==
    /\ ~panic
    /\ mark.script = << >>
    /\ mark.resets < MaxDotsResets
    /\ steps \in DotsResetTicks
    /\ ppu' = NesPpu_reset(ppu)
    /\ mark' = [mark EXCEPT !.resets = @ + 1, !.screen = NoScreenWrite]
    /\ last' = [op |-> "reset", scanline |-> ppu.scanline, cycle |-> ppu.cycle,
                frame_count |-> ppu.frame_count]
    /\ UNCHANGED <<overflow_checks, mapper, cpu, ram, dma_status, cycle_count,
                   input_device_one, panic, steps>>

NextDots == DotsWrite \/ DotsCycle \/ DotsReset

SpecDots == InitDots /\ [][NextDots]_vars

VisibleDot(scanline, cycle) == scanline <= 239 /\ cycle >= 1 /\ cycle <= 256

\* C33: every visible dot (scanline s in 0..=239, cycle c in 1..=256) writes
\* the screen-buffer entry (c - 1) + 256 * s, which is below 61440, and no
\* other dot writes the screen buffer
C33_OneEntryPerVisibleDot ==
    last.op = "cycle" =>
        IF VisibleDot(last.scanline, last.cycle)
        THEN /\ mark.screen.written
             /\ mark.screen.index = (last.cycle - 1) + (256 * last.scanline)
             /\ mark.screen.index < NES_SCREEN_DIMENSIONS
        ELSE ~mark.screen.written

\* the same for a palette RAM whose entries are all below the length of
\* NES_COLOUR_MAP
SixBitPalette == \A i \in DOMAIN ppu.palette_ram : ppu.palette_ram[i] < NES_COLOUR_MAP_LEN
OneEntryPerVisibleDotSixBit == SixBitPalette => C33_OneEntryPerVisibleDot

\* the bits of mask copied from t into v, every other bit of v kept
CopiedBits(v, t, mask) == BitOr(BitAnd(v, Not16(mask)), BitAnd(t, mask))
RenderingLine(p) == p.scanline <= 239 \/ p.scanline = MAX_SCANLINES

\* C34: with rendering enabled, cycle 257 of every visible and pre-render
\* scanline copies exactly the bits 0x041F of t into v, and each of cycles
\* 280..=304 of the pre-render scanline copies exactly the bits 0x7BE0; with
\* rendering disabled neither cycle changes v
C34_AddressCopies ==
    [][(steps' = steps + 1 /\ ~panic') =>
        LET v == ppu.current_vram_address
            t == ppu.temporary_vram_address
        IN  /\ (RenderingLine(ppu) /\ ppu.cycle = 257) =>
                  ppu'.current_vram_address =
                      IF rendering_enabled(ppu) THEN CopiedBits(v, t, 1055) ELSE v
            /\ (ppu.scanline = MAX_SCANLINES /\ ppu.cycle >= 280 /\ ppu.cycle <= 304) =>
                  ppu'.current_vram_address =
                      IF rendering_enabled(ppu) THEN CopiedBits(v, t, 31712) ELSE v]_vars

\* after cycle 304 of the pre-render scanline of frame 1, rendering enabled
\* and t = 0x7FFF: both copies have set all fifteen bits of v
C34_Witness ==
    /\ last.op = "cycle"
    /\ ppu.scanline = MAX_SCANLINES
    /\ ppu.cycle = 305
    /\ ppu.frame_count = 1
    /\ rendering_enabled(ppu)
    /\ ppu.temporary_vram_address = 32767
    /\ ppu.current_vram_address = 32767

\* C35: in every state reached from construction by cycles and resets the
\* scanline is in 0..=261 and the cycle in 0..=340, no dot reaches the
\* invalid-cycle or invalid-scanline panic, and the frame counter changes
\* only by +1, only from the last dot of scanline 261 to (0, 0)
C35_PositionInRange ==
    /\ ppu.scanline \in 0..MAX_SCANLINES
    /\ ppu.cycle \in 0..MAX_CYCLES
    /\ ~mark.invalid
    /\ (last.op # "none" /\ ppu.frame_count # last.frame_count) =>
          /\ last.op = "cycle"
          /\ ppu.frame_count = last.frame_count + 1
          /\ last.scanline = MAX_SCANLINES
          /\ last.cycle = IF last.frame_count % 2 = 1 THEN MAX_CYCLES_MINUS_ONE ELSE MAX_CYCLES
          /\ ppu.scanline = 0
          /\ ppu.cycle = 0

\* frame 1 has ended on dot 339 of its pre-render scanline after a reset
C35_Witness ==
    /\ mark.resets = 1
    /\ last.op = "cycle"
    /\ last.scanline = MAX_SCANLINES
    /\ last.cycle = MAX_CYCLES_MINUS_ONE
    /\ ppu.frame_count = 2
    /\ ppu.scanline = 0
    /\ ppu.cycle = 0

(***************************************************************************)
(* SpecDataPort: a PPU from NesPpu::new whose VRAM address is set through  *)
(* the address register (offset 6) and then used through the data port    *)
(* (offset 7), with either increment.                                      *)
(***************************************************************************)
MaxDataPortSteps == 5

InitDataPort ==
    /\ \E ctrl \in {0, VRAM_INCREMENT} : ppu = [NesPpu_new EXCEPT !.ctrl_flags = ctrl]
    /\ mapper = Mapper004_new
    /\ cpu = MOS6502_new
    /\ BusIdle
    /\ panic = FALSE
    /\ overflow_checks = TRUE
    /\ last = NoOp
    /\ mark = NoOp
    /\ steps = 0

DataPortAddressWrite ==
    /\ ~panic
    /\ steps < MaxDataPortSteps
    /\ last.op \in {"none", "address"}
    /\ \E data \in {0, 32, 63, 255} :
         LET done(r) ==
             /\ ppu' = r.ppu
             /\ panic' = r.panic
             /\ last' = [op |-> "address", data |-> data]
         IN  done(NesPpu_write(ppu, mapper, 8198, data))
    /\ steps' = steps + 1
    /\ UNCHANGED <<overflow_checks, mapper, cpu, ram, dma_status, cycle_count,
                   input_device_one, mark>>

DataPortRead ==
    /\ ~panic
    /\ steps < MaxDataPortSteps
    /\ LET done(r) ==
           /\ ppu' = r.ppu
           /\ panic' = r.panic
           /\ last' = [op |-> "read", address |-> ppu.current_vram_address]
       IN  done(NesPpu_read(ppu, mapper, 8199))
    /\ steps' = steps + 1
    /\ UNCHANGED <<overflow_checks, mapper, cpu, ram, dma_status, cycle_count,
                   input_device_one, mark>>

DataPortWrite ==
    /\ ~panic
    /\ steps < MaxDataPortSteps
    /\ \E data \in {0, 21} :
         LET done(r) ==
             /\ ppu' = r.ppu
             /\ panic' = r.panic
             /\ last' = [op |-> "write", address |-> ppu.current_vram_address]
         IN  done(NesPpu_write(ppu, mapper, 8199, data))
    /\ steps' = steps + 1
    /\ UNCHANGED <<overflow_checks, mapper, cpu, ram, dma_status, cycle_count,
                   input_device_one, mark>>

NextDataPort == DataPortAddressWrite \/ DataPortRead \/ DataPortWrite

SpecDataPort == InitDataPort /\ [][NextDataPort]_vars

\* C36: after any address-register writes, every data-port read and write
\* reaches vram_read or vram_write with an address of at most 0x3FFF and
\* completes without the out-of-range panic
C36_VramAddressInRange ==
    last.op \in {"read", "write"} => (last.address <= 16383 /\ ~panic)

\* the same for the data-port accesses made while the address the writes set
\* has not been incremented past 0x3FFF
DataPortInRangeBelowWrap ==
    (last.op \in {"read", "write"} /\ last.address <= 16383) => ~panic

(***************************************************************************)
(* The PPU side of a cartridge: character memory behind each mapper.       *)
(***************************************************************************)
\* memory[i] = data
IndexStore(memory, i, data) ==
    IF i < memory.len
    THEN [memory |-> [memory EXCEPT !.cells =
                         [x \in (DOMAIN @) \cup {i} |-> IF x = i THEN data ELSE @[x]]],
          panic |-> FALSE]
    ELSE [memory |-> memory, panic |-> TRUE]

\* Mapper001::character_read, the index it reads
Mapper001_character_read(m, address) ==
    IF BitAnd(m.control_register, 16) = 0
    THEN [index |-> address + BitAnd(m.character_bank_0_register, 30) * 4096, panic |-> FALSE]
    ELSE IF address <= 4095
    THEN [index |-> BitAnd(address, 4095) + m.character_bank_0_register * 4096,
          panic |-> FALSE]
    ELSE [index |-> BitAnd(address, 4095) + m.character_bank_1_register * 4096,
          panic |-> FALSE]

\* Mapper001::character_write, the index it writes: `self.control_register &
\* 0x10` is matched against 0x00 and 0x01, so with bit 4 set no arm but
\* `_ => unreachable!()` is left
Mapper001_character_write(m, address) ==
    IF BitAnd(m.control_register, 16) = 0
    THEN [index |-> address + BitAnd(m.character_bank_0_register, 30) * 4096, panic |-> FALSE]
    ELSE [index |-> 0, panic |-> TRUE]

\* Mapper003::character_read and character_write, the index they use
Mapper003_character_index(m, address) ==
    [index |-> BitOr(BitAnd(address, 8191), m.bank_select * 8192), panic |-> FALSE]

\* Mapper004::character_read and character_write, the index they use
Mapper004_character_index(m, address) ==
    LET plain == BitAnd(m.bank_control, 128) = 0
        window == IF plain THEN address ELSE BitXor(address, 4096)
        bank == IF window <= 2047 THEN 0
                ELSE IF window <= 4095 THEN 1
                ELSE 2 + ((window - 4096) \div 1024)
        offset == IF window <= 4095 THEN BitAnd(address, 2047) ELSE BitAnd(address, 1023)
    IN  [index |-> offset + m.bank_select[bank] * 1024, panic |-> FALSE]

\* Cartridge::character_read: the call through Box<dyn Mapper>
character_read(m, character_ram, address) ==
    LET at(i) == IF i.panic THEN [value |-> 0, panic |-> TRUE]
                 ELSE Index(character_ram, i.index)
    IN  CASE m.id = 1 -> at(Mapper001_character_read(m, address))
          [] m.id = 3 -> at(Mapper003_character_index(m, address))
          [] m.id = 4 -> at(Mapper004_character_index(m, address))
          [] OTHER -> Index(character_ram, address)

\* Cartridge::character_write: the call through Box<dyn Mapper>
character_write(m, character_ram, address, data) ==
    LET at(i) == IF i.panic THEN [memory |-> character_ram, panic |-> TRUE]
                 ELSE IndexStore(character_ram, i.index, data)
    IN  CASE m.id = 1 -> at(Mapper001_character_write(m, address))
          [] m.id = 3 -> at(Mapper003_character_index(m, address))
          [] m.id = 4 -> at(Mapper004_character_index(m, address))
          [] OTHER -> IndexStore(character_ram, address, data)

(***************************************************************************)
(* SpecCharacter: each of the five mappers as get_mapper builds it, with   *)
(* a program ROM of whole 16 KiB banks and a character memory of whole     *)
(* 8 KiB banks (none for a cartridge without character ROM); the CPU       *)
(* writes the bank registers and reads the program ROM, the PPU reads and  *)
(* writes the character memory.                                            *)
(***************************************************************************)
MaxCharacterSteps == 3

InitCharacter ==
    /\ ppu = NesPpu_new
    /\ mapper \in { Mapper000_new("Horizontal"), Mapper001_new("Horizontal"),
                    Mapper002_new("Vertical"), Mapper003_new("Vertical"),
                    Mapper004_new }
    /\ cpu = MOS6502_new
    /\ BusIdle
    /\ panic = FALSE
    /\ overflow_checks = TRUE
    /\ last = NoOp
    /\ \E rom \in {32768, 262144}, chr \in {0, 8192, 32768} :
          mark = [program_rom |-> Memory(rom), program_ram |-> Memory(0),
                  character_ram |-> Memory(chr)]
    /\ steps = 0

CharacterRegisterWrite ==
    /\ steps < MaxCharacterSteps
    /\ ~panic
    /\ \E address \in {32768, 32769, 57344}, data \in {0, 1, 6, 135} :
          LET done(r) ==
                  /\ mapper' = r.mapper
                  /\ mark' = [mark EXCEPT !.program_ram = r.program_ram]
                  /\ panic' = r.panic
                  /\ last' = [op |-> "program_write", address |-> address, data |-> data,
                              before |-> mapper]
          IN  done(program_write(mapper, mark.program_ram, address, data))
    /\ steps' = steps + 1
    /\ UNCHANGED <<overflow_checks, ppu, cpu, ram, dma_status, cycle_count,
                   input_device_one>>

CharacterProgramRead ==
    /\ steps < MaxCharacterSteps
    /\ ~panic
    /\ \E address \in {32768, 40960, 49152, 65535} :
          LET done(r) ==
                  /\ last' = [op |-> "program_read", address |-> address,
                              value |-> r.value, before |-> mapper]
                  /\ panic' = r.panic
          IN  done(program_read(mapper, mark.program_rom, mark.program_ram, address))
    /\ steps' = steps + 1
    /\ UNCHANGED <<overflow_checks, ppu, mapper, cpu, ram, dma_status, cycle_count,
                   input_device_one, mark>>

CharacterRead ==
    /\ steps < MaxCharacterSteps
    /\ ~panic
    /\ \E address \in {0, 2047, 4096, 8191} :
          LET done(r) ==
                  /\ last' = [op |-> "character_read", address |-> address,
                              value |-> r.value, before |-> mapper]
                  /\ panic' = r.panic
          IN  done(character_read(mapper, mark.character_ram, address))
    /\ steps' = steps + 1
    /\ UNCHANGED <<overflow_checks, ppu, mapper, cpu, ram, dma_status, cycle_count,
                   input_device_one, mark>>

CharacterWrite ==
    /\ steps < MaxCharacterSteps
    /\ ~panic
    /\ \E address \in {0, 4096, 8191}, data \in {90} :
          LET done(r) ==
                  /\ mark' = [mark EXCEPT !.character_ram = r.memory]
                  /\ last' = [op |-> "character_write", address |-> address,
                              data |-> data, before |-> mapper]
                  /\ panic' = r.panic
          IN  done(character_write(mapper, mark.character_ram, address, data))
    /\ steps' = steps + 1
    /\ UNCHANGED <<overflow_checks, ppu, mapper, cpu, ram, dma_status, cycle_count,
                   input_device_one>>

NextCharacter ==
    CharacterRegisterWrite \/ CharacterProgramRead \/ CharacterRead \/ CharacterWrite

SpecCharacter == InitCharacter /\ [][NextCharacter]_vars

BankedAccess == last.op \in {"program_read", "character_read", "character_write"}

\* C37: for every mapper, bank register value and memory size, program_read
\* over 0x8000..=0xFFFF and character_read and character_write over
\* 0x0000..=0x1FFF index inside the array they use
C37_IndexInsideArray == BankedAccess => ~panic

\* the same for the mapper without bank registers in front of 8 KiB or more
\* of character memory
FixedBanksIndexInsideArray ==
    (BankedAccess /\ mapper.id = 0 /\ mark.character_ram.len >= 8192) => ~panic

\* MMC1 in 8 KiB mode writes the character memory inside the array
Mmc1WriteInsideArray ==
    (last.op = "character_write" /\ mapper.id = 1
     /\ BitAnd(mapper.control_register, 16) = 0
     /\ BitAnd(mapper.character_bank_0_register, 30) * 4096 + 8192 <= mark.character_ram.len)
       => ~panic

\* MMC1 in 4 KiB mode fails on every write of the character memory
Mmc1WriteFailsIn4K ==
    (last.op = "character_write" /\ mapper.id = 1
     /\ BitAnd(mapper.control_register, 16) = 16) => panic

ProgramRamWrite ==
    last.op = "program_write" /\ last.address >= 24576 /\ last.address <= 32767

\* C38: a CPU write to 0x6000..=0x7FFF completes without failure for every
\* mapper and every length of program RAM, the empty one included, where the
\* write has no effect
C38_ProgramRamWriteCompletes == ProgramRamWrite => ~panic

\* the same for a program RAM that covers the whole window: the write
\* completes and stores the byte
ProgramRamWriteStores ==
    (ProgramRamWrite /\ mark.program_ram.len >= 8192) =>
        /\ ~panic
        /\ Index(mark.program_ram, last.address - 24576).value = last.data

\* every write to an empty program RAM fails
EmptyProgramRamWriteFails ==
    (ProgramRamWrite /\ mark.program_ram.len = 0) => panic

(***************************************************************************)
(* SpecBusWrite: the console from Nes::new, with the CPU's writes applied  *)
(* to the bus one after another.  The addresses sample every arm of        *)
(* Bus::write but the cartridge's program RAM window, which SpecProgram    *)
(* covers; both builds (with and without overflow checks) are started.     *)
(***************************************************************************)
MaxBusWriteSteps == 2

BusWriteAddresses ==
    {0, 2048, 8195, 8196, 16384, 16403, 16404, 16405, 16406, 16407, 16408, 16415,
     32768, 32769}
BusWriteData == {0, 129, 255}

InitBusWrite ==
    /\ Holds(Nes_new)
    /\ overflow_checks \in BOOLEAN
    /\ last = NoOp
    /\ mark = NoOp
    /\ steps = 0

BusWriteStep ==
    /\ ~panic
    /\ steps < MaxBusWriteSteps
    /\ \E address \in BusWriteAddresses, data \in BusWriteData :
         /\ Becomes(Bus_write(Console, address, data))
         /\ last' = [op |-> "bus_write", address |-> address, data |-> data,
                     before |-> Console]
    /\ steps' = steps + 1
    /\ UNCHANGED <<overflow_checks, mark>>

NextBusWrite == BusWriteStep

SpecBusWrite == InitBusWrite /\ [][NextBusWrite]_vars

\* the addresses of the audio unit and of the second controller port
IgnoredWrite ==
    /\ last.op = "bus_write"
    /\ last.address \in (16384 .. 16403) \cup {16405, 16407}

\* the addresses 0x4018 to 0x401F
DisabledWrite == last.op = "bus_write" /\ last.address \in 16408 .. 16415

\* a write to the OAM data register with the OAM address at 0xFF
OamDataWriteAtLast ==
    /\ last.op = "bus_write"
    /\ last.address \in 8192 .. 16383
    /\ last.address % 8 = 4
    /\ last.before.ppu.oam_address = 255

\* C39: no bus write makes the emulator fail: a write to 0x4018..0x401F or
\* to the audio unit's addresses changes nothing, and a write to the OAM
\* data register with the OAM address at 0xFF stores the byte at 0xFF and
\* wraps the OAM address to 0.
C39_BusWritesNeverFail ==
    /\ last.op = "bus_write" => ~panic
    /\ (IgnoredWrite \/ DisabledWrite) => Console = last.before
    /\ OamDataWriteAtLast =>
          /\ Load(ppu.object_attribute_memory, 255, OAM_FILL) = last.data
          /\ ppu.oam_address = 0

\* the audio unit's addresses and the second controller port ignore writes
IgnoredWritesChangeNothing == IgnoredWrite => Console = last.before

\* every write to 0x4018..0x401F fails
DisabledWritesFail == DisabledWrite => panic

\* the OAM data write at 0xFF stores the byte and wraps; it fails exactly in
\* a build with overflow checks
OamDataWriteAtLastWraps ==
    OamDataWriteAtLast =>
        /\ Load(ppu.object_attribute_memory, 255, OAM_FILL) = last.data
        /\ ppu.oam_address = 0
        /\ panic = overflow_checks

\* every other sampled write completes
OtherWritesComplete ==
    (last.op = "bus_write" /\ ~DisabledWrite /\ ~OamDataWriteAtLast) => ~panic

(***************************************************************************)
(* SpecResetDma: the console from Nes::new with a program that may start   *)
(* an OAM DMA from page 2 in any of its slots, and a host that calls       *)
(* Nes::reset once, at any moment, and goes on calling Nes::cycle.         *)
(***************************************************************************)
MaxResetDmaTicks == 9

ResetDmaAccesses == {Idle, BusWrite(512, 58), BusWrite(16404, 2)}

ResetDmaCycle ==
    /\ ~panic
    /\ cycle_count < MaxResetDmaTicks
    /\ \E access \in ResetDmaAccesses :
         LET done(r) ==
                 /\ access # Idle => cycle_count % 3 = 0
                 /\ Becomes(r.nes)
                 /\ last' = [op |-> "cycle", count |-> cycle_count,
                             dma |-> dma_status, log |-> r.log]
         IN  done(Nes_cycle(Console, access))
    /\ UNCHANGED <<overflow_checks, mark, steps>>

ResetDmaHost ==
    /\ ~panic
    /\ steps = 0
    /\ Becomes(Nes_reset(Console))
    /\ last' = [op |-> "reset", before |-> Console]
    /\ steps' = steps + 1
    /\ UNCHANGED <<overflow_checks, mark>>

NextResetDma == ResetDmaCycle \/ ResetDmaHost

SpecResetDma == InitReset /\ [][NextResetDma]_vars

\* the first Nes::cycle call after the reset
FirstCycleAfterReset == last.op = "cycle" /\ steps = 1 /\ last.count = 0

\* C40: Nes::reset restarts the master cycle count at 0 and leaves no OAM DMA
\* job active; the first cycle after it, whose master count is 0, runs the CPU.
C40_ResetDiscardsDmaJob ==
    /\ last.op = "reset" => (cycle_count = 0 /\ ~dma_status.active)
    /\ FirstCycleAfterReset => last.log[1] = "cpu"

\* Nes::reset restarts the master cycle count and leaves the DMA job as it was
ResetKeepsDmaJob ==
    last.op = "reset"
       => (cycle_count = 0 /\ dma_status = last.before.dma_status)

\* the first cycle after the reset goes to the DMA job the reset found, and to
\* the CPU when it found none
FirstSlotAfterReset ==
    FirstCycleAfterReset
       => last.log[1] = IF last.dma.active THEN "dma" ELSE "cpu"

=============================================================================
